---- MODULE Spec2Model ----
(***************************************************************************)
(* Channel health monitor of channels-dvr-tools (src/tve_checker.py).      *)
(*                                                                         *)
(* One invocation of the script is one scan pass: it loads the failure     *)
(* ledger from the log file, fetches the TVE channels, probes every        *)
(* channel on a thread pool, merges the results on the main thread,        *)
(* updates the ledger and writes it back.  Successive invocations share    *)
(* nothing but the log file.                                               *)
(*                                                                         *)
(* Spec          follows the ledger over several invocations, the parallel *)
(*               phase of each being one step.                             *)
(* SpecScan      follows one invocation thread by thread.                  *)
(* SpecRun       follows one invocation with any command line, from the    *)
(*               argument checks to the notification.                      *)
(* SpecDuration  and SpecProbe apply get_failure_duration and              *)
(*               test_video_stream to arguments drawn from bounded sets.   *)
(***************************************************************************)
EXTENDS Integers, Sequences, FiniteSets, TLC

\* ------------------------------------------------------------------ bounds
MaxChannel == 2       \* channel numbers are 1..MaxChannel
MaxPasses  == 2       \* invocations of the script in one behaviour of Spec
MaxWorkers == 2       \* --max-workers ranges over 1..MaxWorkers

ChannelNumbers == 1..MaxChannel

\* The names the channel source can report for a channel: channel 1 is renamed
\* from time to time, the others keep their name.
ChannelNames(c) == IF c = 1 THEN {"A", "A HD"} ELSE {<<"B", "C", "D">>[c - 1]}

MINIMUM_FREQUENCY == 60
DEFAULT_MAX_WORKERS == 10

\* Python's None, where a string is expected
None == "None"

\* --------------------------------------------------------------- variables
VARIABLES
    pc,            \* position of the main thread of the current invocation
    clock,         \* wall clock (datetime.now()), one tick per invocation
    passNo,        \* number of invocations started so far
    logFile,       \* the ledger file on disk: [state, data]
    failure_log,   \* DVR.failure_log, the in-memory ledger
    max_workers,   \* args.max_workers
    tve_channels,  \* number -> name, as returned by get_tve_channels
    futures,       \* number -> state of the future submitted for the channel
    passed_channels,
    failed_channels,
    probes,        \* number -> calls of test_video_stream in this pass
    saveWarned,    \* _save_failure_log printed its warning in this pass
    args,          \* args = parser.parse_args()
    email_config,  \* DVR.email_config is set (not None)
    printed,       \* what the invocation has printed so far
    exit_code,     \* exit status of the process once it has ended
    mail,          \* what became of the report: "none", "sent" or "failed"
    report,        \* failed channel -> its line of the report: label, duration
    input,         \* argument of the function under study (function specs)
    output,        \* its result
    downloads,     \* download directory -> the files in it (post-processing)
    library,       \* the files moved into the Channels DVR TV directory
    transmission,  \* names of the torrents Transmission holds
    processed,     \* monitor_directory: the paths processed so far
    visited,       \* the entries of the watch directory seen in this round
    rounds,        \* monitor_directory: polling rounds completed
    lastCall,      \* the most recent call of process_torrent_directory
    lastResult,    \* number -> outcome of the channel's most recent probe
    prevResult,    \* number -> outcome in the previous completed scan pass
    prevFirst,     \* number -> first_failed of its record after that pass, 0 if none
    prevSaved,     \* the previous completed scan pass wrote the file
    allSaved       \* every completed scan pass so far wrote the file

vars == <<pc, clock, passNo, logFile, failure_log, max_workers, tve_channels,
          futures, passed_channels, failed_channels, probes, saveWarned,
          args, email_config, printed, exit_code, mail, report,
          input, output,
          downloads, library, transmission, processed, visited, rounds,
          lastCall,
          lastResult, prevResult, prevFirst, prevSaved, allSaved>>

\* ----------------------------------------------------------------- helpers
EmptyMap == [k \in {} |-> None]

\* the variables of the post-processing script
media == <<downloads, library, transmission, processed, visited, rounds,
           lastCall>>

\* no call of process_torrent_directory yet
NoCall ==
    [dir |-> <<>>, round |-> 0, dry_run |-> FALSE, before |-> {},
     moves |-> EmptyMap,
     result |-> [success_count |-> 0, error_count |-> 0, show_name |-> <<>>]]

\* the post-processing script not running, nothing downloaded
MediaAtRest ==
    /\ downloads = EmptyMap
    /\ library = {}
    /\ transmission = {}
    /\ processed = {}
    /\ visited = {}
    /\ rounds = 0
    /\ lastCall = NoCall

Digit == <<"0", "1", "2", "3", "4", "5", "6", "7", "8", "9">>

RECURSIVE Str(_)
\* str(ch_number) for a non-negative integer
Str(n) == IF n < 10 THEN Digit[n + 1]
          ELSE Str(n \div 10) \o Digit[(n % 10) + 1]

Keys(m) == {Str(c) : c \in DOMAIN m}

\* ------------------------------------------------------------ stream prober
\* str(e) of what requests raises: the read timeout of timeout=30
\* (ReadTimeout), a refused connection (ConnectionError), and a stream that
\* ends inside a chunk (ChunkedEncodingError).
ReadTimeoutText ==
    "HTTPConnectionPool(host='127.0.0.1', port=8089): Read timed out. (read timeout=30)"
ConnectionRefusedText ==
    "HTTPConnectionPool(host='127.0.0.1', port=8089): Max retries exceeded (Connection refused)"
EndedEarlyText == "Response ended prematurely"

\* What the DVR answers to one streaming GET: an exception raised by requests
\* (exc, "" when none), else a status code and the chunks iter_content yields.
Responses ==
    { [exc |-> "", status |-> 200, chunks |-> <<"data">>],
      [exc |-> "", status |-> 200, chunks |-> <<"">>],
      [exc |-> "", status |-> 200, chunks |-> <<>>],
      [exc |-> "", status |-> 503, chunks |-> <<>>],
      [exc |-> ReadTimeoutText, status |-> 0, chunks |-> <<>>] }

\* The answers drawn when a whole pass is one step: healthy, and two failures
\* with different error texts.
PassResponses == {r \in Responses : r.exc # "" \/ r.chunks = <<"data">> \/ r.status = 503}

\* The handler `except requests.exceptions.RequestException` is missing: the
\* exception leaves test_video_stream.
ExceptUncaught(r) == FALSE

\* except requests.exceptions.RequestException: every exception requests
\* raises derives from it.
ExceptCatches(r) == r.exc # ""

\* The else branch of the loop body is missing: empty chunks are skipped
\* until a chunk with data arrives or the stream ends.
test_video_stream_SkipEmpty(r) ==
    IF r.exc # ""
    THEN [success |-> FALSE, error |-> r.exc, raised |-> FALSE, read |-> 0]
    ELSE IF r.status = 200
         THEN IF \E i \in 1..Len(r.chunks) : r.chunks[i] # ""
              THEN [success |-> TRUE, error |-> None, raised |-> FALSE,
                    read |-> CHOOSE i \in 1..Len(r.chunks) :
                               /\ r.chunks[i] # ""
                               /\ \A j \in 1..(i - 1) : r.chunks[j] = ""]
              ELSE [success |-> FALSE, error |-> "No data received",
                    raised |-> FALSE, read |-> Len(r.chunks)]
         ELSE [success |-> FALSE, error |-> "HTTP " \o Str(r.status),
               raised |-> FALSE, read |-> 0]

\* test_video_stream(url): (success, error), or the exception propagates;
\* read is the number of chunks taken from iter_content
test_video_stream(r) ==
    IF r.exc # ""
    THEN IF ExceptCatches(r)
         THEN [success |-> FALSE, error |-> r.exc, raised |-> FALSE,
               read |-> 0]
         ELSE [success |-> FALSE, error |-> r.exc, raised |-> TRUE,
               read |-> 0]
    ELSE IF r.status = 200
         THEN IF Len(r.chunks) > 0
              THEN IF r.chunks[1] # ""
                   THEN [success |-> TRUE, error |-> None, raised |-> FALSE,
                         read |-> 1]
                   ELSE [success |-> FALSE,
                         error |-> "Link valid but no video received",
                         raised |-> FALSE, read |-> 1]
              ELSE [success |-> FALSE, error |-> "No data received",
                    raised |-> FALSE, read |-> 0]
         ELSE [success |-> FALSE, error |-> "HTTP " \o Str(r.status),
               raised |-> FALSE, read |-> 0]

\* test_channel(ch_number, ch_name, ...): the result stored in the future
test_channel(ch_number, ch_name, r) ==
    LET t == test_video_stream(r)
    IN  [state |-> "done", ch_number |-> ch_number, ch_name |-> ch_name,
         success |-> t.success, error |-> t.error, raised |-> t.raised]

\* --------------------------------------------------------- failure ledger
\* A Python value as the json module sees it: its type t and its content v
\* (for a dictionary key, its text).  A JSON document is the set of the
\* members of its top-level object, each value a JSON string, number or null.
PyStr(v) == [t |-> "str", v |-> v]

\* The ledger is keyed by the channel number itself.
PyKey_Int(k) == [t |-> "int", v |-> k]

\* ch_key = str(ch_number): the keys of the ledger are strings
PyKey(k) == [t |-> "str", v |-> k]

\* self.failure_log as Python holds it: names and error texts are strings,
\* the two times are the strings isoformat() returned
PyDict(log) ==
    { [key   |-> PyKey(k),
       value |-> [name         |-> PyStr(log[k].name),
                  first_failed |-> PyStr(log[k].first_failed),
                  last_checked |-> PyStr(log[k].last_checked),
                  error        |-> PyStr(log[k].error)]] : k \in DOMAIN log }

\* json.dump of one value: str -> string, int -> number, None -> null
JsonValue(x) ==
    CASE x.t = "str"      -> [t |-> "string", v |-> x.v]
      [] x.t = "int"      -> [t |-> "number", v |-> x.v]
      [] x.t = "NoneType" -> [t |-> "null", v |-> x.v]

\* json.load of one value
PyValue(j) ==
    CASE j.t = "string" -> [t |-> "str", v |-> j.v]
      [] j.t = "number" -> [t |-> "int", v |-> j.v]
      [] j.t = "null"   -> [t |-> "NoneType", v |-> j.v]

\* json.dump(self.failure_log, f): a member name is always a string, a key
\* that is not one is written as its text
JsonDump(py) ==
    { [name  |-> e.key.v,
       value |-> [field \in DOMAIN e.value |-> JsonValue(e.value[field])]] :
      e \in py }

\* json.load(f): every key comes back as a str
JsonLoad(doc) ==
    { [key   |-> [t |-> "str", v |-> m.name],
       value |-> [field \in DOMAIN m.value |-> PyValue(m.value[field])]] :
      m \in doc }

\* the loaded dictionary as the ledger of the model
Ledger(py) ==
    [k \in {e.key.v : e \in py} |->
        LET e == CHOOSE x \in py : x.key.v = k
        IN  [name         |-> e.value.name.v,
             first_failed |-> e.value.first_failed.v,
             last_checked |-> e.value.last_checked.v,
             error        |-> e.value.error.v]]

\* _load_failure_log: the parsed file, {} when absent or unparseable
LoadFailureLog(f) == IF f.state = "ok" THEN Ledger(JsonLoad(f.data)) ELSE EmptyMap

\* What open()/json.dump can do: succeed, fail in open() (file untouched), or
\* fail while writing (file truncated by open(.., 'w'), left unparseable).
SaveOutcomes == {"ok", "open_failed", "write_failed"}

\* _save_failure_log: the file afterwards
SaveFailureLog(f, log, outcome) ==
    CASE outcome = "ok"           -> [state |-> "ok",
                                      data  |-> JsonDump(PyDict(log))]
      [] outcome = "open_failed"  -> f
      [] outcome = "write_failed" -> [state |-> "corrupt", data |-> {}]

\* The handler `except IOError` of _save_failure_log is missing.
IOErrorUncaught(outcome) == FALSE

\* except IOError: open() and the write raise OSError, which IOError names
IOErrorCatches(outcome) == outcome \in {"open_failed", "write_failed"}

\* A continuing failure is written like a new one.
AddOrUpdateFailed_AlwaysNew(log, failed, current_time) ==
    [k \in DOMAIN log \cup Keys(failed) |->
        IF k \in Keys(failed)
        THEN LET ch == CHOOSE c \in DOMAIN failed : Str(c) = k
             IN  [name         |-> failed[ch].name,
                  first_failed |-> current_time,
                  last_checked |-> current_time,
                  error        |-> failed[ch].error]
        ELSE log[k]]

\* The branch for a new failure is missing: only records that exist already
\* are refreshed.
AddOrUpdateFailed_OnlyKnown(log, failed, current_time) ==
    [k \in DOMAIN log |->
        IF k \in Keys(failed)
        THEN LET ch == CHOOSE c \in DOMAIN failed : Str(c) = k
             IN  [log[k] EXCEPT !.last_checked = current_time,
                                !.error = failed[ch].error]
        ELSE log[k]]

\* update_failure_log, first loop: add or update failed channels
AddOrUpdateFailed(log, failed, current_time) ==
    [k \in DOMAIN log \cup Keys(failed) |->
        IF k \in Keys(failed)
        THEN LET ch == CHOOSE c \in DOMAIN failed : Str(c) = k
             IN  IF k \notin DOMAIN log
                 THEN [name         |-> failed[ch].name,
                       first_failed |-> current_time,
                       last_checked |-> current_time,
                       error        |-> failed[ch].error]
                 ELSE [log[k] EXCEPT !.last_checked = current_time,
                                     !.error = failed[ch].error]
        ELSE log[k]]

\* The second loop is missing: nothing is removed.
RemovePassed_Nothing(log, passed) == log

\* update_failure_log, second loop: remove channels that are now passing
RemovePassed(log, passed) ==
    [k \in DOMAIN log \ Keys(passed) |-> log[k]]

\* The first loop does not refresh the error of a continuing failure.
UpdatedLog_StaleError(log, failed, passed, current_time) ==
    LET new == RemovePassed(AddOrUpdateFailed(log, failed, current_time), passed)
    IN  [k \in DOMAIN new |->
            IF k \in DOMAIN log THEN [new[k] EXCEPT !.error = log[k].error]
            ELSE new[k]]

\* The ledger is rebuilt from this pass alone: records of channels that were
\* not scanned are dropped.
UpdatedLog_OnlyScanned(log, failed, passed, current_time) ==
    LET new == RemovePassed(AddOrUpdateFailed(log, failed, current_time), passed)
    IN  [k \in DOMAIN new \cap Keys(failed) |-> new[k]]

\* update_failure_log: the in-memory ledger afterwards
UpdatedLog(log, failed, passed, current_time) ==
    RemovePassed(AddOrUpdateFailed(log, failed, current_time), passed)

\* get_failure_duration.  Times are whole seconds; a record's first_failed
\* is the isoformat() text of such a time, which fromisoformat reads back.
Minute == 60
Hour   == 3600
Day    == 24 * Hour

\* a - b of two datetimes: timedelta keeps 0 <= seconds < one day and puts
\* the rest, sign included, into days
timedelta(e) == [days |-> e \div Day, seconds |-> e % Day]

get_failure_duration(log, ch_number, now) ==
    LET ch_key == Str(ch_number)
    IN  IF ch_key \in DOMAIN log
        THEN LET duration == timedelta(now - log[ch_key].first_failed)
                 days     == duration.days
                 hours    == duration.seconds \div Hour
                 minutes  == (duration.seconds % Hour) \div Minute
             IN  IF days > 0
                 THEN IF days = 1 THEN Str(days) \o " day"
                      ELSE Str(days) \o " days"
                 ELSE IF hours > 0
                 THEN IF hours = 1 THEN Str(hours) \o " hour"
                      ELSE Str(hours) \o " hours"
                 ELSE IF minutes > 0
                 THEN IF minutes = 1 THEN Str(minutes) \o " minute"
                      ELSE Str(minutes) \o " minutes"
                 ELSE "just now"
        ELSE None

\* ------------------------------------------------------------ thread pool
Queued == [state |-> "queued", ch_number |-> 0, ch_name |-> None,
           success |-> FALSE, error |-> None, raised |-> FALSE]

InState(s) == {c \in DOMAIN futures : futures[c].state = s}

\* A thread per job, whatever max_workers says.
PoolUnbounded(running) == TRUE

\* ThreadPoolExecutor(max_workers): a queued job starts only on a free worker
PoolHasIdleWorker(running) == Cardinality(running) < max_workers

\* The last of the sorted channels is left out.
SubmittedJobs_DropLast(chs) ==
    DOMAIN chs \ {CHOOSE x \in DOMAIN chs : \A y \in DOMAIN chs : y <= x}

\* the channels a job is submitted for: for ch_num in sorted_channels
SubmittedJobs(chs) == DOMAIN chs

Min(S) == CHOOSE x \in S : \A y \in S : x <= y

\* the futures whose probe has returned
Returned == InState("done") \cup InState("yielded")

\* The channel is recorded as passed whatever the probe said.
MergePassed_Always(passed, f) == (f.ch_number :> f.ch_name) @@ passed

\* failed_channels is assigned, not added to: only the latest failure stays.
MergeFailed_Overwrite(failed, f) ==
    IF f.success THEN failed
    ELSE (f.ch_number :> [name |-> f.ch_name, error |-> f.error])

\* the body of the as_completed loop for one result
MergePassed(passed, f) ==
    IF f.success THEN (f.ch_number :> f.ch_name) @@ passed ELSE passed

MergeFailed(failed, f) ==
    IF f.success THEN failed
    ELSE (f.ch_number :> [name |-> f.ch_name, error |-> f.error]) @@ failed

\* The loop is left after the first result.
AllCollected_FirstResult(yielded) == yielded # {}

\* as_completed(future_to_channel) is exhausted: every future was yielded
AllCollected(yielded) == yielded = DOMAIN futures

\* ------------------------------------------------------------------ report
\* The characters of the error texts a probe can return.
Chars(s) ==
    CASE s = ReadTimeoutText ->
        <<"H", "T", "T", "P", "C", "o", "n", "n", "e", "c", "t", "i", "o",
          "n", "P", "o", "o", "l", "(", "h", "o", "s", "t", "=", "'", "1",
          "2", "7", ".", "0", ".", "0", ".", "1", "'", ",", " ", "p", "o",
          "r", "t", "=", "8", "0", "8", "9", ")", ":", " ", "R", "e", "a",
          "d", " ", "t", "i", "m", "e", "d", " ", "o", "u", "t", ".", " ",
          "(", "r", "e", "a", "d", " ", "t", "i", "m", "e", "o", "u", "t",
          "=", "3", "0", ")">>
      [] s = ConnectionRefusedText ->
        <<"H", "T", "T", "P", "C", "o", "n", "n", "e", "c", "t", "i", "o",
          "n", "P", "o", "o", "l", "(", "h", "o", "s", "t", "=", "'", "1",
          "2", "7", ".", "0", ".", "0", ".", "1", "'", ",", " ", "p", "o",
          "r", "t", "=", "8", "0", "8", "9", ")", ":", " ", "M", "a", "x",
          " ", "r", "e", "t", "r", "i", "e", "s", " ", "e", "x", "c", "e",
          "e", "d", "e", "d", " ", "(", "C", "o", "n", "n", "e", "c", "t",
          "i", "o", "n", " ", "r", "e", "f", "u", "s", "e", "d", ")">>
      [] s = EndedEarlyText ->
        <<"R", "e", "s", "p", "o", "n", "s", "e", " ", "e", "n", "d", "e",
          "d", " ", "p", "r", "e", "m", "a", "t", "u", "r", "e", "l", "y">>
      [] s = "Link valid but no video received" ->
        <<"L", "i", "n", "k", " ", "v", "a", "l", "i", "d", " ", "b", "u",
          "t", " ", "n", "o", " ", "v", "i", "d", "e", "o", " ", "r", "e",
          "c", "e", "i", "v", "e", "d">>
      [] s = "No data received" ->
        <<"N", "o", " ", "d", "a", "t", "a", " ", "r", "e", "c", "e", "i",
          "v", "e", "d">>
      [] s = "HTTP 206" ->
        <<"H", "T", "T", "P", " ", "2", "0", "6">>
      [] s = "HTTP 404" ->
        <<"H", "T", "T", "P", " ", "4", "0", "4">>
      [] s = "HTTP 503" ->
        <<"H", "T", "T", "P", " ", "5", "0", "3">>

UpperCase == <<"A", "B", "C", "D", "E", "F", "G", "H", "I", "J", "K", "L", "M",
               "N", "O", "P", "Q", "R", "S", "T", "U", "V", "W", "X", "Y", "Z">>
LowerCase == <<"a", "b", "c", "d", "e", "f", "g", "h", "i", "j", "k", "l", "m",
               "n", "o", "p", "q", "r", "s", "t", "u", "v", "w", "x", "y", "z">>

\* str.lower()
lower(text) ==
    [i \in 1..Len(text) |->
        IF \E k \in 1..Len(UpperCase) : UpperCase[k] = text[i]
        THEN LowerCase[CHOOSE k \in 1..Len(UpperCase) : UpperCase[k] = text[i]]
        ELSE text[i]]

\* sub in text
Contains(text, sub) ==
    \E i \in 1..(Len(text) - Len(sub) + 1) :
        \A j \in 1..Len(sub) : text[i + j - 1] = sub[j]

\* send_results_email: the label put before the raw error of a failed channel
friendly_error(error) ==
    IF Contains(Chars(error), <<"H", "T", "T", "P">>)
    THEN "Connection Error"
    ELSE IF Contains(lower(Chars(error)), <<"t", "i", "m", "e", "o", "u", "t">>)
    THEN "Timeout"
    ELSE IF Contains(lower(Chars(error)),
                     <<"n", "o", " ", "v", "i", "d", "e", "o">>)
    THEN "No Video Data"
    ELSE "Stream Error"

\* ------------------------------------------------------------ command line
\* what the script prints (the per-channel lines of the scan left out)
MsgVersion         == "VERSION"
MsgFrequency       == "Minimum frequency of 60 minutes! Try again."
MsgEmailEnabled    == "Email notifications enabled."
MsgEmailIncomplete == "Warning: Incomplete email configuration."
MsgNoChannels      == "No TVE channels received from the Channels DVR server"
MsgSaveFailed      == "Warning: Could not save failure log"
MsgEmailSkipped    == "Email not configured. Skipping email notification."
MsgEmailSent       == "Email notification sent successfully."
MsgEmailFailed     == "Failed to send email"

Frequencies == {MINIMUM_FREQUENCY - 1, MINIMUM_FREQUENCY, MINIMUM_FREQUENCY + 1}

\* The sanity check of the frequency is missing.
FrequencyRejected_Never(f) == FALSE

\* Only the default frequency is let through.
FrequencyRejected_NotMinimum(f) == f # MINIMUM_FREQUENCY

\* if frequency < MINIMUM_FREQUENCY:
FrequencyRejected(f) == f < MINIMUM_FREQUENCY

\* The parsed command line: --version, --frequency, and for each of the four
\* mail arguments whether it was given a non-empty value.
Arguments ==
    [version : BOOLEAN, frequency : Frequencies, smtp_server : BOOLEAN,
     sender_email : BOOLEAN, sender_password : BOOLEAN,
     recipient_email : BOOLEAN]

\* the script called without arguments
DefaultArguments ==
    [version |-> FALSE, frequency |-> MINIMUM_FREQUENCY, smtp_server |-> FALSE,
     sender_email |-> FALSE, sender_password |-> FALSE,
     recipient_email |-> FALSE]

MailArguments(a) ==
    {a.smtp_server, a.sender_email, a.sender_password, a.recipient_email}

\* elif any([...])
AnyGiven(a) == TRUE \in MailArguments(a)

\* Server and recipient are enough to switch notifications on.
EmailConfigured_ServerAndRecipient(a) == a.smtp_server /\ a.recipient_email

\* if all([...]): DVR.set_email_config(...)
EmailConfigured(a) == MailArguments(a) = {TRUE}

\* ---------------------------------------------------------------- notifier
\* How the SMTP conversation ends: every step of it can raise.
SmtpOutcomes ==
    {"ok", "connect_failed", "starttls_failed", "login_failed", "send_failed"}

\* Only smtplib's own exceptions are handled: a refused connection (OSError)
\* leaves send_results_email.
SmtpCatches_SMTPException(outcome) == outcome # "connect_failed"

\* except Exception: whatever the with-block raises
SmtpCatches(outcome) == TRUE

\* send_results_email: what became of the report, what was printed, and
\* whether an exception left the method
send_results_email(config, outcome) ==
    IF ~config
    THEN [mail |-> "none", printed |-> {MsgEmailSkipped}, raised |-> FALSE]
    ELSE IF outcome = "ok"
    THEN [mail |-> "sent", printed |-> {MsgEmailSent}, raised |-> FALSE]
    ELSE IF SmtpCatches(outcome)
    THEN [mail |-> "failed", printed |-> {MsgEmailFailed}, raised |-> FALSE]
    ELSE [mail |-> "failed", printed |-> {}, raised |-> TRUE]

\* ------------------------------------------------------------------- init
ChannelMaps ==
    UNION { {f \in [S -> UNION {ChannelNames(c) : c \in S}] :
                \A c \in S : f[c] \in ChannelNames(c)} :
            S \in SUBSET ChannelNumbers }

NoResult == [c \in ChannelNumbers |-> "none"]
NoProbes == [c \in ChannelNumbers |-> 0]

Init ==
    /\ pc = "idle"
    /\ clock = 0
    /\ passNo = 0
    /\ logFile = [state |-> "absent", data |-> {}]
    /\ failure_log = EmptyMap
    /\ max_workers = 1
    /\ tve_channels = EmptyMap
    /\ futures = EmptyMap
    /\ passed_channels = EmptyMap
    /\ failed_channels = EmptyMap
    /\ probes = NoProbes
    /\ saveWarned = FALSE
    /\ args = DefaultArguments
    /\ email_config = FALSE
    /\ printed = {}
    /\ exit_code = 0
    /\ mail = "none"
    /\ report = EmptyMap
    /\ input = None
    /\ output = None
    /\ MediaAtRest
    /\ lastResult = NoResult
    /\ prevResult = NoResult
    /\ prevFirst = NoProbes
    /\ prevSaved = TRUE
    /\ allSaved = TRUE

ghosts == <<lastResult, prevResult, prevFirst, prevSaved, allSaved>>

\* the variables of the function specifications
fn == <<input, output>>

\* ---------------------------------------------------------------- actions
\* A new invocation: the ledger is loaded by the constructor, the channel list
\* is fetched, and an empty list ends the run.
\* From the parsed arguments to the channel list.  --version and a frequency
\* below the minimum end the run by sys.exit() before the server object (and
\* with it the ledger) is built; an empty channel list ends it after that.
\* sys.exit() without an argument is exit status 0.
main_start(limit, workers, arguments) ==
    /\ pc = "idle"
    /\ passNo < limit
    /\ \E a \in arguments, w \in workers, chs \in ChannelMaps :
          /\ max_workers' = w
          /\ args' = a
          /\ IF a.version
             THEN /\ printed' = {MsgVersion}
                  /\ failure_log' = EmptyMap
                  /\ email_config' = FALSE
                  /\ tve_channels' = EmptyMap
                  /\ pc' = "exited"
             ELSE IF FrequencyRejected(a.frequency)
             THEN /\ printed' = {MsgFrequency}
                  /\ failure_log' = EmptyMap
                  /\ email_config' = FALSE
                  /\ tve_channels' = EmptyMap
                  /\ pc' = "exited"
             ELSE /\ failure_log' = LoadFailureLog(logFile)
                  /\ email_config' = EmailConfigured(a)
                  /\ tve_channels' = chs
                  /\ printed' =
                        (IF EmailConfigured(a) THEN {MsgEmailEnabled}
                         ELSE IF AnyGiven(a) THEN {MsgEmailIncomplete} ELSE {})
                        \cup (IF DOMAIN chs = {} THEN {MsgNoChannels} ELSE {})
                  /\ pc' = IF DOMAIN chs = {} THEN "exited" ELSE "submit"
    /\ exit_code' = 0
    /\ passNo' = passNo + 1
    /\ clock' = clock + 1
    /\ UNCHANGED <<logFile, futures, passed_channels, failed_channels, probes,
                   saveWarned, mail, report, fn, media, ghosts>>

\* the one invocation of SpecScan: default arguments but for --max-workers
Start == main_start(1, 1..MaxWorkers, {DefaultArguments})

\* the invocations of Spec: the script run again and again without arguments
StartPass == main_start(MaxPasses, {DEFAULT_MAX_WORKERS}, {DefaultArguments})

\* the one invocation of SpecRun, with any command line
StartRun == main_start(1, {DEFAULT_MAX_WORKERS}, Arguments)

\* executor.submit for every channel
SubmitAll ==
    /\ pc = "submit"
    /\ futures' = [c \in SubmittedJobs(tve_channels) |-> Queued]
    /\ pc' = "collect"
    /\ UNCHANGED <<clock, passNo, logFile, failure_log, max_workers,
                   tve_channels, passed_channels, failed_channels, probes,
                   saveWarned, ghosts,
                   args, email_config, printed, exit_code, mail, report, fn, media>>

\* a pool worker takes the oldest queued job and calls test_channel
WorkerStart ==
    /\ pc \in {"collect", "raising"}
    /\ InState("queued") # {}
    /\ PoolHasIdleWorker(InState("running"))
    /\ LET c == Min(InState("queued"))
       IN  /\ futures' = [futures EXCEPT ![c].state = "running"]
           /\ probes' = [probes EXCEPT ![c] = @ + 1]
    /\ UNCHANGED <<pc, clock, passNo, logFile, failure_log, max_workers,
                   tve_channels, passed_channels, failed_channels,
                   saveWarned, ghosts,
                   args, email_config, printed, exit_code, mail, report, fn, media>>

\* test_channel returns in a worker: the future holds its result
WorkerReturn ==
    /\ \E c \in InState("running"), r \in Responses :
          futures' = [futures EXCEPT ![c] = test_channel(c, tve_channels[c], r)]
    /\ UNCHANGED <<pc, clock, passNo, logFile, failure_log, max_workers,
                   tve_channels, passed_channels, failed_channels, probes,
                   saveWarned, ghosts,
                   args, email_config, printed, exit_code, mail, report, fn, media>>

\* the main thread takes one completed future from as_completed;
\* future.result() re-raises what test_channel raised
Merge ==
    /\ pc = "collect"
    /\ \E c \in InState("done") :
          /\ futures' = [futures EXCEPT ![c].state = "yielded"]
          /\ IF futures[c].raised
             THEN /\ pc' = "raising"
                  /\ UNCHANGED <<passed_channels, failed_channels>>
             ELSE /\ pc' = pc
                  /\ passed_channels' = MergePassed(passed_channels, futures[c])
                  /\ failed_channels' = MergeFailed(failed_channels, futures[c])
    /\ UNCHANGED <<clock, passNo, logFile, failure_log, max_workers,
                   tve_channels, probes, saveWarned, ghosts,
                   args, email_config, printed, exit_code, mail, report, fn, media>>

\* leaving the `with ThreadPoolExecutor` block: shutdown(wait=True) joins the
\* workers, then the script goes on, or the pending exception ends it
ExitPool ==
    /\ pc \in {"collect", "raising"}
    /\ IF pc = "collect"
       THEN AllCollected(InState("yielded"))
       ELSE Returned = DOMAIN futures
    /\ pc' = IF pc = "raising" THEN "crashed" ELSE "update"
    /\ exit_code' = IF pc = "raising" THEN 1 ELSE exit_code
    /\ UNCHANGED <<clock, passNo, logFile, failure_log, max_workers,
                   tve_channels, futures, passed_channels, failed_channels,
                   probes, saveWarned, ghosts,
                   args, email_config, printed, mail, report, fn, media>>

RECURSIVE MergeAllPassed(_, _), MergeAllFailed(_, _)
\* the as_completed loop run to its end over the futures of S
MergeAllPassed(S, fs) ==
    IF S = {} THEN EmptyMap
    ELSE LET c == Min(S) IN MergePassed(MergeAllPassed(S \ {c}, fs), fs[c])

MergeAllFailed(S, fs) ==
    IF S = {} THEN EmptyMap
    ELSE LET c == Min(S) IN MergeFailed(MergeAllFailed(S \ {c}, fs), fs[c])

\* The whole parallel phase of one pass as a single step: every submitted
\* channel is probed once and the results are merged.
ScanPass ==
    /\ pc = "submit"
    /\ \E rs \in [SubmittedJobs(tve_channels) -> PassResponses] :
          LET fs == [c \in DOMAIN rs |->
                       [test_channel(c, tve_channels[c], rs[c])
                           EXCEPT !.state = "yielded"]]
          IN  /\ futures' = fs
              /\ probes' = [c \in ChannelNumbers |->
                              IF c \in DOMAIN rs THEN 1 ELSE 0]
              /\ IF \E c \in DOMAIN fs : fs[c].raised
                 THEN /\ pc' = "crashed"
                      /\ exit_code' = 1
                      /\ UNCHANGED <<passed_channels, failed_channels>>
                 ELSE /\ pc' = "update"
                      /\ exit_code' = exit_code
                      /\ passed_channels' = MergeAllPassed(DOMAIN fs, fs)
                      /\ failed_channels' = MergeAllFailed(DOMAIN fs, fs)
    /\ UNCHANGED <<clock, passNo, logFile, failure_log, max_workers,
                   tve_channels, saveWarned, ghosts,
                   args, email_config, printed, mail, report, fn, media>>

\* DVR.update_failure_log(failed_channels, passed_channels)
update_failure_log ==
    /\ pc = "update"
    /\ failure_log' = UpdatedLog(failure_log, failed_channels,
                                 passed_channels, clock)
    /\ \E o \in SaveOutcomes :
          /\ logFile' = SaveFailureLog(logFile, failure_log', o)
          /\ IF o = "ok"
             THEN /\ saveWarned' = FALSE
                  /\ printed' = printed
                  /\ pc' = "updated"
                  /\ exit_code' = exit_code
             ELSE IF IOErrorCatches(o)
             THEN /\ saveWarned' = TRUE
                  /\ printed' = printed \cup {MsgSaveFailed}
                  /\ pc' = "updated"
                  /\ exit_code' = exit_code
             ELSE /\ saveWarned' = FALSE
                  /\ printed' = printed
                  /\ pc' = "crashed"
                  /\ exit_code' = 1
    /\ UNCHANGED <<clock, passNo, max_workers, tve_channels, futures,
                   passed_channels, failed_channels, probes, ghosts,
                   args, email_config, mail, report, fn, media>>

\* The report goes out after every pass, failures or not.
ReportDue_Configured == email_config

\* One tick of the clock is an hour, the shortest interval --frequency allows
\* between two runs.
Seconds(t) == t * Hour

InSeconds(log) ==
    [k \in DOMAIN log |->
        [log[k] EXCEPT !.first_failed = Seconds(@),
                       !.last_checked = Seconds(@)]]

\* the seconds from the datetime.now() of update_failure_log to the one of
\* get_failure_duration: the report is built within the minute
ReportDelays == {0, 1, Minute - 1}

\* send_results_email: for each failed channel, the label of its error and
\* the duration of its failure
ReportLines(failed, log, now) ==
    [c \in DOMAIN failed |->
        [label    |-> friendly_error(failed[c].error),
         duration |-> get_failure_duration(log, c, now)]]

\* if DVR.email_config and failed_channels:
ReportDue == email_config /\ failed_channels # EmptyMap

\* DVR.send_results_email(passed_channels, failed_channels), called by main
main_notify ==
    /\ pc = "updated"
    /\ ReportDue
    /\ \E o \in SmtpOutcomes :
          LET r == send_results_email(email_config, o)
          IN  /\ mail' = r.mail
              /\ \E d \in ReportDelays :
                    report' = ReportLines(failed_channels,
                                          InSeconds(failure_log),
                                          Seconds(clock) + d)
              /\ printed' = printed \cup r.printed
              /\ pc' = IF r.raised THEN "crashed" ELSE "notified"
              /\ exit_code' = IF r.raised THEN 1 ELSE exit_code
    /\ UNCHANGED <<clock, passNo, logFile, failure_log, max_workers,
                   tve_channels, futures, passed_channels, failed_channels,
                   probes, saveWarned, args, email_config, fn, media, ghosts>>

ResultOf(c) ==
    IF c \in DOMAIN passed_channels THEN "ok"
    ELSE IF c \in DOMAIN failed_channels THEN "fail" ELSE "none"

\* the process ends; only the log file outlives it
Finish ==
    /\ pc \in {"notified", "exited", "crashed"}
              \cup (IF ReportDue THEN {} ELSE {"updated"})
    /\ pc' = "idle"
    /\ failure_log' = EmptyMap
    /\ max_workers' = 1
    /\ tve_channels' = EmptyMap
    /\ futures' = EmptyMap
    /\ passed_channels' = EmptyMap
    /\ failed_channels' = EmptyMap
    /\ probes' = NoProbes
    /\ saveWarned' = FALSE
    /\ args' = DefaultArguments
    /\ email_config' = FALSE
    /\ printed' = {}
    /\ exit_code' = 0
    /\ mail' = "none"
    /\ report' = EmptyMap
    /\ IF pc \in {"updated", "notified"}
       THEN /\ prevResult' = [c \in ChannelNumbers |-> ResultOf(c)]
            /\ lastResult' = [c \in ChannelNumbers |->
                                IF ResultOf(c) = "none" THEN lastResult[c]
                                ELSE ResultOf(c)]
            /\ prevFirst' = [c \in ChannelNumbers |->
                               IF Str(c) \in DOMAIN failure_log
                               THEN failure_log[Str(c)].first_failed ELSE 0]
            /\ prevSaved' = ~saveWarned
            /\ allSaved' = (allSaved /\ ~saveWarned)
       ELSE UNCHANGED ghosts
    /\ UNCHANGED <<clock, passNo, logFile, fn, media>>

\* ---------------------------------------------------------- specifications
\* SpecScan: one invocation, thread by thread, started on any ledger file an
\* earlier invocation can have left.
InitialFiles ==
    { [state |-> "absent", data |-> {}],
      [state |-> "corrupt", data |-> {}],
      [state |-> "ok", data |-> {}],
      [state |-> "ok",
       data |-> JsonDump(PyDict(
                   "1" :> [name |-> "A", first_failed |-> 1,
                           last_checked |-> 2, error |-> "HTTP 503"]))] }

InitScan ==
    /\ pc = "idle"
    /\ clock = 2
    /\ passNo = 0
    /\ logFile \in InitialFiles
    /\ failure_log = EmptyMap
    /\ max_workers = 1
    /\ tve_channels = EmptyMap
    /\ futures = EmptyMap
    /\ passed_channels = EmptyMap
    /\ failed_channels = EmptyMap
    /\ probes = NoProbes
    /\ saveWarned = FALSE
    /\ args = DefaultArguments
    /\ email_config = FALSE
    /\ printed = {}
    /\ exit_code = 0
    /\ mail = "none"
    /\ report = EmptyMap
    /\ input = None
    /\ output = None
    /\ MediaAtRest
    /\ lastResult = NoResult
    /\ prevResult = NoResult
    /\ prevFirst = NoProbes
    /\ prevSaved = TRUE
    /\ allSaved = TRUE

NextScan ==
    \/ Start
    \/ SubmitAll
    \/ WorkerStart
    \/ WorkerReturn
    \/ Merge
    \/ ExitPool
    \/ update_failure_log
    \/ Finish

SpecScan == InitScan /\ [][NextScan]_vars

\* SpecRun: one invocation with any command line, the parallel phase taken as
\* one step and followed up to the notification.
NextRun ==
    \/ StartRun
    \/ ScanPass
    \/ update_failure_log
    \/ main_notify
    \/ Finish

SpecRun == InitScan /\ [][NextRun]_vars

\* Spec: up to MaxPasses invocations from a missing log file, the parallel
\* phase of each taken as one step (ScanPass).
Next ==
    \/ StartPass
    \/ ScanPass
    \/ update_failure_log
    \/ Finish

Spec == Init /\ [][Next]_vars

\* ------------------------------------------------- function specifications
\* One call of a function on an argument drawn from a bounded set, the
\* script itself at rest.
process == <<clock, passNo, logFile, failure_log, max_workers, tve_channels,
             futures, passed_channels, failed_channels, probes, saveWarned,
             args, email_config, printed, exit_code, mail, report>>

AtRest ==
    /\ clock = 0
    /\ passNo = 0
    /\ logFile = [state |-> "absent", data |-> {}]
    /\ failure_log = EmptyMap
    /\ max_workers = 1
    /\ tve_channels = EmptyMap
    /\ futures = EmptyMap
    /\ passed_channels = EmptyMap
    /\ failed_channels = EmptyMap
    /\ probes = NoProbes
    /\ saveWarned = FALSE
    /\ args = DefaultArguments
    /\ email_config = FALSE
    /\ printed = {}
    /\ exit_code = 0
    /\ mail = "none"
    /\ report = EmptyMap
    /\ lastResult = NoResult
    /\ prevResult = NoResult
    /\ prevFirst = NoProbes
    /\ prevSaved = TRUE
    /\ allSaved = TRUE

\* SpecDuration: get_failure_duration.  The time from first_failed to now
\* ranges over the neighbourhood of every threshold, and over negative values:
\* datetime.now() is local wall-clock time, which is set back at the end of
\* daylight saving time and by clock corrections.
ElapsedSeconds ==
    {k * u + d : k \in 1..2, u \in {Minute, Hour, Day}, d \in {-1, 0, 1}}
        \cup {0, 1, Day + Hour, Day + Hour + Minute}
        \cup {-1, -Minute, -Hour, -Day, -(Day + Hour)}

\* the time of the first failure in the ledgers drawn
FirstFailed == 2 * Day

\* the ledger is empty or holds a record of channel 1; any channel is asked for
DurationInputs ==
    [failure_log : {EmptyMap,
                    "1" :> [name |-> "A", first_failed |-> FirstFailed,
                            last_checked |-> FirstFailed,
                            error |-> "HTTP 503"]},
     ch_number   : ChannelNumbers,
     now         : {FirstFailed + e : e \in ElapsedSeconds}]

InitDuration ==
    /\ pc = "call"
    /\ AtRest
    /\ MediaAtRest
    /\ input \in DurationInputs
    /\ output = None

get_failure_duration_call ==
    /\ pc = "call"
    /\ output' = get_failure_duration(input.failure_log, input.ch_number,
                                      input.now)
    /\ pc' = "returned"
    /\ UNCHANGED <<input, process, media, ghosts>>

SpecDuration == InitDuration /\ [][get_failure_duration_call]_vars

\* SpecProbe: test_video_stream on every answer of the server.
MaxChunks == 2

ChunkSequences == UNION {[1..n -> {"", "data"}] : n \in 0..MaxChunks}

StreamResponses ==
    [exc    : {"", ReadTimeoutText, ConnectionRefusedText, EndedEarlyText},
     status : {200, 206, 404, 503},
     chunks : ChunkSequences]

InitProbe ==
    /\ pc = "call"
    /\ AtRest
    /\ MediaAtRest
    /\ input \in StreamResponses
    /\ output = None

test_video_stream_call ==
    /\ pc = "call"
    /\ output' = test_video_stream(input)
    /\ pc' = "returned"
    /\ UNCHANGED <<input, process, media, ghosts>>

SpecProbe == InitProbe /\ [][test_video_stream_call]_vars

\* SpecReport: a probe, and the label the report gives to its failure.
friendly_error_call ==
    /\ pc = "returned"
    /\ ~output.success
    /\ output' = [error |-> output.error, label |-> friendly_error(output.error)]
    /\ pc' = "labelled"
    /\ UNCHANGED <<input, process, media, ghosts>>

NextReport ==
    \/ test_video_stream_call
    \/ friendly_error_call

SpecReport == InitProbe /\ [][NextReport]_vars

\* SpecChannels: get_tve_channels on every list of channel objects the
\* server can return.  hidden is "true", "false" or "absent"; source_id is
\* given by its characters.
MaxObjects == 2

SourceIds ==
    { <<"T", "V", "E", "-", "1">>, <<"T", "V", "E">>,
      <<"t", "v", "e", "-", "1">>, <<"M", "3", "U", "-", "T", "V", "E">> }

ChannelObjects ==
    UNION { [number : {c}, name : ChannelNames(c),
             hidden : {"true", "false", "absent"}, source_id : SourceIds] :
            c \in ChannelNumbers }

ChannelLists == UNION {[1..n -> ChannelObjects] : n \in 0..MaxObjects}

\* source_id.startswith(prefix)
StartsWith(text, prefix) ==
    /\ Len(text) >= Len(prefix)
    /\ \A i \in 1..Len(prefix) : text[i] = prefix[i]

\* A channel without the hidden attribute is taken for hidden.
Hidden_UnlessSaidNot(channel) == channel.hidden # "false"

\* hidden = channel.get('hidden', False)
Hidden(channel) == channel.hidden = "true"

RECURSIVE get_tve_channels(_)
\* get_tve_channels: number -> name of the channels kept, a later object
\* replacing an earlier one of the same number
get_tve_channels(channels) ==
    IF channels = <<>> THEN EmptyMap
    ELSE LET channel == channels[Len(channels)]
             before  == get_tve_channels(SubSeq(channels, 1, Len(channels) - 1))
         IN  IF ~Hidden(channel)
                  /\ StartsWith(channel.source_id, <<"T", "V", "E">>)
             THEN (channel.number :> channel.name) @@ before
             ELSE before

InitChannels ==
    /\ pc = "call"
    /\ AtRest
    /\ MediaAtRest
    /\ input \in ChannelLists
    /\ output = None

get_tve_channels_call ==
    /\ pc = "call"
    /\ output' = get_tve_channels(input)
    /\ pc' = "returned"
    /\ UNCHANGED <<input, process, media, ghosts>>

SpecChannels == InitChannels /\ [][get_tve_channels_call]_vars

\* SpecScanFair: the scan with every thread scheduled; a probe returns within
\* its 30 s timeout, so no step that can be taken is put off for ever.
SpecScanFair == InitScan /\ [][NextScan]_vars /\ WF_vars(NextScan)

\* ------------------------------------------------------------------ claims
HasRecord(c) == Str(c) \in DOMAIN failure_log

\* the outcome of c's most recent probe, this pass included, is a failure
MostRecentFailed(c) ==
    IF ResultOf(c) = "none" THEN lastResult[c] = "fail" ELSE ResultOf(c) = "fail"

ScanFinished == pc \in {"update", "updated"}

\* the update_failure_log step
UpdateStep == pc = "update" /\ pc' = "updated"

C2_ResultsPartitionChannels ==
    ScanFinished =>
        /\ DOMAIN passed_channels \cap DOMAIN failed_channels = {}
        /\ DOMAIN passed_channels \cup DOMAIN failed_channels
              = DOMAIN tve_channels
        /\ Cardinality(DOMAIN passed_channels)
              + Cardinality(DOMAIN failed_channels)
              = Cardinality(DOMAIN tve_channels)

\* C2 witness: a finished scan with a passed and a failed channel.
C2_Witness ==
    /\ pc = "update"
    /\ DOMAIN passed_channels # {}
    /\ DOMAIN failed_channels # {}

\* C3 as stated: a channel that failed in the previous pass and succeeds in
\* this one has no record after update_failure_log, neither in memory nor in
\* the ledger as persisted.
C3_RecoveredAbsentEverywhere ==
    pc = "updated" =>
        \A c \in DOMAIN passed_channels :
            prevResult[c] = "fail" =>
                /\ ~HasRecord(c)
                /\ Str(c) \notin DOMAIN LoadFailureLog(logFile)

\* C3 amended: such a channel has no record in memory after
\* update_failure_log, and none in the persisted ledger unless the write of
\* this pass failed.
C3_RecoveredAbsentUnlessSaveFailed ==
    pc = "updated" =>
        \A c \in DOMAIN passed_channels :
            prevResult[c] = "fail" =>
                /\ ~HasRecord(c)
                /\ ~saveWarned => Str(c) \notin DOMAIN LoadFailureLog(logFile)

\* C3 witness: a channel failed in the previous pass, whose record was loaded
\* again, passed in this one, and the ledger was written.
C3_Witness ==
    /\ pc = "updated"
    /\ ~saveWarned
    /\ prevSaved
    /\ \E c \in DOMAIN passed_channels : prevResult[c] = "fail"

C5_MemoryEffect ==
    /\ \A c \in DOMAIN failed_channels :
          /\ Str(c) \in DOMAIN failure_log'
          /\ failure_log'[Str(c)].error = failed_channels[c].error
          /\ Str(c) \in DOMAIN failure_log =>
                /\ failure_log'[Str(c)].name = failure_log[Str(c)].name
                /\ failure_log'[Str(c)].first_failed
                      = failure_log[Str(c)].first_failed
    /\ \A c \in DOMAIN passed_channels : Str(c) \notin DOMAIN failure_log'
    /\ ( /\ tve_channels = (1 :> "A") @@ (2 :> "B")
         /\ failure_log = EmptyMap
         /\ passed_channels = (1 :> "A")
         /\ failed_channels = (2 :> [name |-> "B", error |-> "HTTP 503"]) )
       => DOMAIN failure_log' = {"2"}

\* C5 as stated: after update_failure_log every failed channel has a record
\* with the error of this pass, an existing record keeps name and
\* first_failed, no passed channel has a record, and the whole map has been
\* written to the ledger file; for {1: A, 2: B}, 1 passing and 2 failing
\* with HTTP 503 on an empty ledger, the ledger has exactly the key "2".
C5_UpdateWritesFile ==
    [][UpdateStep =>
          /\ C5_MemoryEffect
          /\ logFile' = [state |-> "ok", data |-> JsonDump(PyDict(failure_log'))]]_vars

\* C5 amended: the same, except that the map has been written to the file
\* unless the write failed, in which case the warning is printed and the file
\* is left as it was or left unparseable.
C5_UpdateWritesFileUnlessSaveFailed ==
    [][UpdateStep =>
          /\ C5_MemoryEffect
          /\ IF saveWarned'
             THEN logFile' = logFile \/ logFile'.state = "corrupt"
             ELSE logFile' = [state |-> "ok", data |-> JsonDump(PyDict(failure_log'))]]_vars

\* C5 witness: the scenario of the claim, with the ledger written, in the
\* first pass.
C5_Witness ==
    /\ pc = "updated"
    /\ passNo = 1
    /\ ~saveWarned
    /\ passed_channels = (1 :> "A")
    /\ failed_channels = (2 :> [name |-> "B", error |-> "HTTP 503"])
    /\ DOMAIN failure_log = {"2"}
    /\ logFile = [state |-> "ok", data |-> JsonDump(PyDict(failure_log))]

\* C6: at every instant the number of probes started and not yet returned is
\* at most max_workers.
C6_InFlightAtMostMaxWorkers ==
    Cardinality(InState("running")) <= max_workers

\* C6 witness: every worker is busy and a channel is still waiting.
C6_Witness ==
    /\ Cardinality(InState("running")) = max_workers
    /\ InState("queued") # {}

\* every submitted probe has returned and its result has been merged
C7_ScanComplete ==
    /\ DOMAIN futures = DOMAIN tve_channels
    /\ InState("yielded") = DOMAIN futures
    /\ DOMAIN passed_channels \cup DOMAIN failed_channels = DOMAIN futures

\* C7: the ledger is mutated and written only by update_failure_log on the
\* main thread, which runs only when every submitted probe has returned and
\* been merged; the scan never ends early with partial results.
C7_LedgerTouchedOnlyAfterScan ==
    [][ /\ (pc' = "update" => C7_ScanComplete')
        /\ ((pc # "idle" /\ pc' # "idle"
                /\ (failure_log' # failure_log \/ logFile' # logFile))
              => (UpdateStep /\ C7_ScanComplete)) ]_vars

\* C7 witness: the ledger was updated after a scan of two channels.
C7_Witness ==
    /\ pc = "updated"
    /\ Cardinality(DOMAIN futures) >= 2
    /\ failure_log # EmptyMap

\* the result maps as the probe outcomes alone determine them
C8_ExpectedPassed ==
    [c \in {x \in DOMAIN tve_channels : futures[x].success} |-> tve_channels[c]]

C8_ExpectedFailed ==
    [c \in {x \in DOMAIN tve_channels : ~futures[x].success} |->
        [name |-> tve_channels[c], error |-> futures[c].error]]

\* C8: for a given channel list and given probe outcomes, passed_channels,
\* failed_channels and the resulting ledger are the same whatever the order
\* in which the probes complete and are merged: they are determined by the
\* channel list, the outcomes, the loaded file and the time of the pass.
C8_ResultsIndependentOfOrder ==
    [][ /\ (pc' \in {"update", "updated"} =>
              /\ passed_channels' = C8_ExpectedPassed'
              /\ failed_channels' = C8_ExpectedFailed')
        /\ (UpdateStep =>
              failure_log' = UpdatedLog(LoadFailureLog(logFile),
                                        C8_ExpectedFailed, C8_ExpectedPassed,
                                        clock)) ]_vars

\* C8 witness: two workers, two failed channels, ledger updated.
C8_Witness ==
    /\ pc = "updated"
    /\ max_workers >= 2
    /\ Cardinality(DOMAIN failed_channels) >= 2

\* C9: within one pass every listed channel is probed exactly once, never
\* more, and a channel is classified failed exactly when that probe failed.
C9_EachChannelProbedOnce ==
    /\ \A c \in ChannelNumbers : probes[c] <= 1
    /\ ScanFinished =>
          \A c \in DOMAIN tve_channels :
              /\ probes[c] = 1
              /\ c \in DOMAIN futures
              /\ c \in DOMAIN failed_channels <=> ~futures[c].success

\* C9 witness: a finished scan in which a channel failed its one probe.
C9_Witness ==
    /\ pc = "update"
    /\ \E c \in DOMAIN failed_channels : probes[c] = 1

\* C10: a failure inside one probe stays in that channel's result: it is
\* never raised out of the scan, the other channels are classified by their
\* own results, and the ledger update of the pass runs.
C10_ProbeFailureStaysLocal ==
    /\ [](pc \notin {"raising", "crashed"})
    /\ [](ScanFinished =>
             \A c \in DOMAIN tve_channels :
                 /\ c \in DOMAIN passed_channels <=> futures[c].success
                 /\ c \in DOMAIN failed_channels <=> ~futures[c].success)
    /\ (pc = "submit" ~> pc = "updated")

\* C10 witness: the ledger was updated in a pass where one probe ended in a
\* transport error and another channel passed.
C10_Witness ==
    /\ pc = "updated"
    /\ \E c \in DOMAIN failed_channels :
          failed_channels[c].error = ReadTimeoutText
    /\ DOMAIN passed_channels # {}

\* the step that starts an invocation
StartStep == pc = "idle" /\ pc' # "idle"

\* the invocation ended on a configuration error: it printed one of the two
\* diagnostics and left by sys.exit()
ConfigError ==
    pc = "exited" /\ (MsgFrequency \in printed \/ MsgNoChannels \in printed)

\* C11: a run that meets a configuration error (a frequency below the minimum,
\* or an empty channel list) ends at once: no probe is dispatched, the ledger
\* is not updated, and the ledger file is left exactly as it was, from the
\* start of the invocation to the end of the process.
C11_ConfigErrorTouchesNothing ==
    [][/\ (StartStep /\ (args'.frequency < MINIMUM_FREQUENCY
                            \/ DOMAIN tve_channels' = {}))
            => /\ pc' = "exited"
               /\ logFile' = logFile
               /\ probes' = NoProbes
               /\ futures' = EmptyMap
       /\ pc = "exited"
            => /\ pc' = "idle"
               /\ logFile' = logFile
               /\ probes = NoProbes
               /\ futures = EmptyMap
               /\ ~saveWarned]_vars

\* a frequency below the minimum was rejected while the ledger file held a
\* record, which is still there
C11_Witness ==
    /\ ConfigError
    /\ args.frequency < MINIMUM_FREQUENCY
    /\ logFile.state = "ok"
    /\ logFile.data # {}

\* C12: a configuration error ends the run with a printed diagnostic and a
\* non-zero exit status.
C12_ConfigErrorExitsNonZero ==
    /\ (pc = "exited" /\ ~args.version /\ args.frequency < MINIMUM_FREQUENCY)
            => MsgFrequency \in printed /\ exit_code # 0
    /\ (pc = "exited" /\ ~args.version /\ args.frequency >= MINIMUM_FREQUENCY)
            => MsgNoChannels \in printed /\ exit_code # 0

C12_Witness ==
    ConfigError /\ MsgNoChannels \in printed /\ exit_code = 0

\* the command line as the code reads it: all four mail arguments are given
AllFourGiven ==
    /\ args.smtp_server
    /\ args.sender_email
    /\ args.sender_password
    /\ args.recipient_email

\* some of the four, not all
SomeNotAllGiven ==
    /\ ~AllFourGiven
    /\ \/ args.smtp_server
       \/ args.sender_email
       \/ args.sender_password
       \/ args.recipient_email

\* the invocation got past the version and frequency checks
PastChecks == pc \notin {"idle"} /\ ~args.version
                                  /\ args.frequency >= MINIMUM_FREQUENCY

FileWritten ==
    logFile' = [state |-> "ok", data |-> JsonDump(PyDict(failure_log'))]

\* C14: a report is sent in a pass if and only if a mail transport is
\* configured and at least one channel failed: no mail is attempted with an
\* empty failed_channels or without email_config, and with both the step after
\* the ledger update is the attempt.  send_results_email itself does nothing
\* but print a message when email_config is absent.
C14_ReportIffConfiguredAndFailed ==
    [][/\ \A o \in SmtpOutcomes :
             send_results_email(FALSE, o) =
                [mail |-> "none", printed |-> {MsgEmailSkipped},
                 raised |-> FALSE]
       /\ (mail = "none" /\ mail' # "none")
            => email_config /\ failed_channels # EmptyMap
       /\ pc = "updated"
            => IF email_config /\ failed_channels # EmptyMap
               THEN mail' \in {"sent", "failed"}
               ELSE mail' = "none" /\ pc' = "idle"]_vars

\* a report went out for a pass with a failed and a passed channel
C14_Witness ==
    /\ pc = "notified"
    /\ mail = "sent"
    /\ failed_channels # EmptyMap
    /\ passed_channels # EmptyMap

\* C15: the ledger is updated and written before the notification is
\* attempted, and a delivery failure of any kind (connect, STARTTLS, login,
\* send) is caught and logged: the process does not end abnormally and the
\* ledger, in memory and on disk, stays as the update left it.
C15_DeliveryFailureIsHarmless ==
    [][/\ (pc # "updated" /\ pc' = "updated")
            => /\ pc = "update"
               /\ failure_log' = UpdatedLog(failure_log, failed_channels,
                                            passed_channels, clock)
       /\ (mail = "none" /\ mail' # "none")
            => /\ pc = "updated"
               /\ pc' = "notified"
               /\ exit_code' = 0
               /\ failure_log' = failure_log
               /\ logFile' = logFile
               /\ mail' = "failed" => MsgEmailFailed \in printed'
       /\ pc = "notified"
            => /\ pc' = "idle"
               /\ logFile' = logFile]_vars

\* the delivery failed after the ledger was written, and the file is intact
C15_Witness ==
    /\ pc = "notified"
    /\ mail = "failed"
    /\ MsgEmailFailed \in printed
    /\ failure_log # EmptyMap
    /\ logFile = [state |-> "ok", data |-> JsonDump(PyDict(failure_log))]

\* C16: loading the ledger never raises; an absent or unparseable file gives
\* the empty map, and in the unparseable case a warning is printed.  (Before
\* the scan the only other messages are those about the mail configuration.)
C16_UnparseableLoadWarns ==
    /\ (pc = "submit" /\ logFile.state \in {"absent", "corrupt"})
            => failure_log = EmptyMap
    /\ (pc = "submit" /\ logFile.state = "corrupt")
            => printed \ {MsgEmailEnabled, MsgEmailIncomplete} # {}

\* an unparseable file was loaded as the empty map, and nothing was printed
C16_Witness ==
    /\ pc = "submit"
    /\ logFile.state = "corrupt"
    /\ failure_log = EmptyMap
    /\ printed = {}

\* C17: a failed write of the ledger file is logged as a warning and does not
\* abort the pass: update_failure_log returns normally with the ledger in
\* memory updated, and the notification, when due, still runs afterwards.
C17_SaveFailureDoesNotAbort ==
    [][/\ (pc = "update" /\ ~FileWritten)
            => /\ pc' = "updated"
               /\ exit_code' = 0
               /\ MsgSaveFailed \in printed'
               /\ failure_log' = UpdatedLog(failure_log, failed_channels,
                                            passed_channels, clock)
       /\ (pc = "updated" /\ saveWarned /\ email_config
                          /\ failed_channels # EmptyMap)
            => /\ pc' = "notified"
               /\ mail' # "none"]_vars

\* the write failed, leaving an unparseable file, and the report went out
C17_Witness ==
    /\ pc = "notified"
    /\ saveWarned
    /\ MsgSaveFailed \in printed
    /\ logFile.state = "corrupt"
    /\ failure_log # EmptyMap
    /\ mail = "sent"

Count(n, unit) == Str(n) \o " " \o unit \o (IF n = 1 THEN "" ELSE "s")

\* C19: get_failure_duration returns None when the channel has no record;
\* otherwise, with e = now - first_failed, the count at the coarsest unit that
\* applies: whole days if e >= 1 day, else whole hours if e >= 1 hour, else
\* whole minutes if e >= 1 minute, else "just now"; the unit is in the
\* singular exactly when the count is 1.
C19_DurationAtCoarsestUnit ==
    pc = "returned" =>
        IF Str(input.ch_number) \notin DOMAIN input.failure_log
        THEN output = None
        ELSE LET e == input.now
                        - input.failure_log[Str(input.ch_number)].first_failed
             IN  output = IF e >= Day THEN Count(e \div Day, "day")
                          ELSE IF e >= Hour THEN Count(e \div Hour, "hour")
                          ELSE IF e >= Minute THEN Count(e \div Minute, "minute")
                          ELSE "just now"

\* the same for a clock that has not gone back since the first failure
C19_DurationAtCoarsestUnitForward ==
    (pc = "returned" /\ input.now >= FirstFailed) => C19_DurationAtCoarsestUnit

\* the clock was set back by a minute: a failure first seen "in the future"
\* is reported as 23 hours old
C19_Witness ==
    /\ pc = "returned"
    /\ input.ch_number = 1
    /\ input.failure_log # EmptyMap
    /\ input.now = FirstFailed - Minute
    /\ output = "23 hours"

\* C20: test_video_stream classifies a stream from the status and the first
\* chunk only.  A transport error gives (False, its text); a status other than
\* 200 gives (False, "HTTP <status>"); status 200 gives (True, None) on a
\* non-empty first chunk, without reading another, (False, "Link valid but no
\* video received") on an empty first chunk, and (False, "No data received")
\* when there is no chunk.  Every input gets exactly one of these five, and no
\* exception leaves the function.
C20_ProbeClassification ==
    pc = "returned" =>
        LET result == <<output.success, output.error>>
            first  == IF Len(input.chunks) > 0 THEN input.chunks[1] ELSE None
            cases  ==
              { <<input.exc # "", <<FALSE, input.exc>>, 0>>,
                <<input.exc = "" /\ input.status # 200,
                  <<FALSE, "HTTP " \o Str(input.status)>>, 0>>,
                <<input.exc = "" /\ input.status = 200
                      /\ first \notin {None, ""},
                  <<TRUE, None>>, 1>>,
                <<input.exc = "" /\ input.status = 200 /\ first = "",
                  <<FALSE, "Link valid but no video received">>, 1>>,
                <<input.exc = "" /\ input.status = 200 /\ first = None,
                  <<FALSE, "No data received">>, 0>> }
        IN  /\ ~output.raised
            /\ Cardinality({c \in cases : c[1]}) = 1
            /\ \A c \in cases : c[1] => result = c[2] /\ output.read = c[3]

\* a stream whose first chunk is empty and whose second holds data: judged by
\* the first alone
C20_Witness ==
    /\ pc = "returned"
    /\ input.exc = ""
    /\ input.status = 200
    /\ input.chunks = <<"", "data">>
    /\ output.error = "Link valid but no video received"
    /\ output.read = 1

\* the rules of the report, read top to bottom on the characters of the error
HasHTTP(error)    == Contains(Chars(error), <<"H", "T", "T", "P">>)
HasTimeout(error) ==
    \/ Contains(Chars(error), <<"t", "i", "m", "e", "o", "u", "t">>)
    \/ Contains(Chars(error), <<"T", "i", "m", "e", "o", "u", "t">>)
    \/ Contains(Chars(error), <<"T", "I", "M", "E", "O", "U", "T">>)
HasNoVideo(error) ==
    \/ Contains(Chars(error), <<"n", "o", " ", "v", "i", "d", "e", "o">>)
    \/ Contains(Chars(error), <<"N", "o", " ", "v", "i", "d", "e", "o">>)
    \/ Contains(Chars(error), <<"N", "o", " ", "V", "i", "d", "e", "o">>)

\* every failure gets the label of the first rule that matches
C21_LabelByFirstRule ==
    pc = "labelled" =>
        output.label =
            IF HasHTTP(output.error) THEN "Connection Error"
            ELSE IF HasTimeout(output.error) THEN "Timeout"
            ELSE IF HasNoVideo(output.error) THEN "No Video Data"
            ELSE "Stream Error"

\* C21: the report gives each failed channel exactly one of four labels, by
\* substring rules read top to bottom ("HTTP", else "timeout", else "no
\* video", else the generic stream error), and a probe that failed because of
\* a timeout is reported as a timeout.
C21_TimeoutIsLabelledTimeout ==
    /\ C21_LabelByFirstRule
    /\ (pc = "labelled" /\ input.exc = ReadTimeoutText)
            => output.label = "Timeout"

\* the probe timed out and the report calls it a connection error
C21_Witness ==
    /\ pc = "labelled"
    /\ input.exc = ReadTimeoutText
    /\ output.error = ReadTimeoutText
    /\ output.label = "Connection Error"

\* the objects of the list that are not hidden and come from a TVE source
Eligible(channels) ==
    {i \in 1..Len(channels) :
        /\ channels[i].hidden \in {"false", "absent"}
        /\ Len(channels[i].source_id) >= 3
        /\ SubSeq(channels[i].source_id, 1, 3) = <<"T", "V", "E">>}

\* C22: the channels scanned are exactly those of the channel objects that
\* are not hidden (no hidden attribute counts as not hidden) and whose
\* source_id starts with "TVE", each under the name its (last) object gives;
\* every other object is left out, and the call returns for every list.
C22_ExactlyVisibleTveChannels ==
    pc = "returned" =>
        /\ DOMAIN output = {input[i].number : i \in Eligible(input)}
        /\ \A i \in Eligible(input) :
              (\A j \in Eligible(input) :
                    input[j].number = input[i].number => j <= i)
                 => output[input[i].number] = input[i].name

\* a list of a TVE channel without the hidden attribute, kept, and a hidden
\* one, left out
C22_Witness ==
    /\ pc = "returned"
    /\ Len(input) = 2
    /\ input[1].hidden = "absent" /\ input[1].number = 1
    /\ input[1].source_id = <<"T", "V", "E", "-", "1">>
    /\ input[2].hidden = "true" /\ input[2].number = 2
    /\ input[2].source_id = <<"T", "V", "E", "-", "1">>
    /\ DOMAIN output = {1}

\* update_failure_log leaves alone the records of channels it was given
\* neither as failed nor as passed
C23_UpdateFrame ==
    UpdateStep =>
        \A k \in DOMAIN failure_log :
            k \notin Keys(failed_channels) \cup Keys(passed_channels)
                => k \in DOMAIN failure_log' /\ failure_log'[k] = failure_log[k]

\* channel c had a record after the previous scan pass and is not scanned in
\* this one
Unscanned(c) == prevFirst[c] # 0 /\ ResultOf(c) = "none"

\* the record of c is the one the previous scan pass left
KeptAsItWas(c) ==
    /\ HasRecord(c)
    /\ failure_log[Str(c)].first_failed = prevFirst[c]
    /\ failure_log[Str(c)].last_checked < clock

Progress ==
    CASE pc = "idle"     -> 0
      [] pc = "submit"   -> 1
      [] pc = "update"   -> 2
      [] pc = "updated"  -> 3
      [] pc = "notified" -> 4
      [] pc \in {"exited", "crashed"} -> 5

ProgressAfter ==
    CASE pc' = "idle"     -> 0
      [] pc' = "submit"   -> 1
      [] pc' = "update"   -> 2
      [] pc' = "updated"  -> 3
      [] pc' = "notified" -> 4
      [] pc' \in {"exited", "crashed"} -> 5

C25_ReportedFailureHasDuration ==
    /\ pc = "notified" =>
          /\ DOMAIN report = DOMAIN failed_channels
          /\ \A c \in DOMAIN report :
                /\ HasRecord(c)
                /\ report[c].duration # None
                /\ failure_log[Str(c)].first_failed = clock
                      => report[c].duration = "just now"
    /\ \A k \in DOMAIN failure_log :
          failure_log[k].first_failed <= failure_log[k].last_checked

\* a report with a failure that began in this pass and one that an earlier
\* run recorded
C25_Witness ==
    /\ pc = "notified"
    /\ \E c, d \in DOMAIN report :
          /\ report[c].duration = "just now"
          /\ report[d].duration = "2 hours"
          /\ failure_log[Str(d)].first_failed < failure_log[Str(d)].last_checked

\* ============================================================ torrent_search
\* Torrent names, seed counts and selections are given by their characters.
\* str.upper()
upper(text) ==
    [i \in 1..Len(text) |->
        IF \E k \in 1..Len(LowerCase) : LowerCase[k] = text[i]
        THEN UpperCase[CHOOSE k \in 1..Len(LowerCase) : LowerCase[k] = text[i]]
        ELSE text[i]]

Digits == {Digit[k] : k \in 1..Len(Digit)}

\* what \s matches
WhiteSpace == {" ", "\t", "\n"}

RECURSIVE Run(_, _, _)
\* the length of the longest run of characters of a class that starts at
\* position i of text (what a greedy \d+ or \s* consumes there)
Run(text, i, class) ==
    IF i <= Len(text) /\ text[i] \in class
    THEN 1 + Run(text, i + 1, class)
    ELSE 0

RECURSIVE DigitsValue(_)
\* int() of a non-empty string of decimal digits
DigitsValue(text) ==
    IF Len(text) = 0 THEN 0
    ELSE 10 * DigitsValue(SubSeq(text, 1, Len(text) - 1))
         + ((CHOOSE k \in 1..Len(Digit) : Digit[k] = text[Len(text)]) - 1)

\* text[i : i + len(word)] == word
WordAt(text, i, word) ==
    /\ i >= 1
    /\ i + Len(word) - 1 <= Len(text)
    /\ \A j \in 1..Len(word) : text[i + j - 1] = word[j]

NoMatch == <<>>

\* The three patterns of parse_episode_info, each as the pair of groups of
\* its match at position i, or NoMatch when it does not match there.
\* [Ss](\d+)[Ee](\d+)
SxxEyyAt(name, i) ==
    LET n1 == Run(name, i + 1, Digits)
        j  == i + 1 + n1
        n2 == Run(name, j + 1, Digits)
    IN  IF /\ i <= Len(name) /\ name[i] \in {"S", "s"}
           /\ n1 >= 1
           /\ j <= Len(name) /\ name[j] \in {"E", "e"}
           /\ n2 >= 1
        THEN <<DigitsValue(SubSeq(name, i + 1, i + n1)),
               DigitsValue(SubSeq(name, j + 1, j + n2))>>
        ELSE NoMatch

\* (\d+)[xX](\d+)
NxNNAt(name, i) ==
    LET n1 == Run(name, i, Digits)
        j  == i + n1
        n2 == Run(name, j + 1, Digits)
    IN  IF /\ n1 >= 1
           /\ j <= Len(name) /\ name[j] \in {"x", "X"}
           /\ n2 >= 1
        THEN <<DigitsValue(SubSeq(name, i, i + n1 - 1)),
               DigitsValue(SubSeq(name, j + 1, j + n2))>>
        ELSE NoMatch

\* [Ee]pisode\s*(\d+) at position p: the digits of its group, <<>> if none
EpisodeAt(name, p) ==
    LET d == p + 7 + Run(name, p + 7, WhiteSpace)
        n == Run(name, d, Digits)
    IN  IF /\ p <= Len(name) /\ name[p] \in {"E", "e"}
           /\ WordAt(name, p + 1, <<"p", "i", "s", "o", "d", "e">>)
           /\ n >= 1
        THEN SubSeq(name, d, d + n - 1)
        ELSE <<>>

\* [Ss]eason\s*(\d+).*[Ee]pisode\s*(\d+): the greedy .* stops at the last
\* place where the rest matches
SeasonEpisodeAt(name, i) ==
    LET d  == i + 6 + Run(name, i + 6, WhiteSpace)
        n1 == Run(name, d, Digits)
        ps == {p \in (d + n1)..Len(name) :
                  /\ EpisodeAt(name, p) # <<>>
                  /\ \A q \in (d + n1)..(p - 1) : name[q] # "\n"}
    IN  IF /\ i <= Len(name) /\ name[i] \in {"S", "s"}
           /\ WordAt(name, i + 1, <<"e", "a", "s", "o", "n">>)
           /\ n1 >= 1
           /\ ps # {}
        THEN <<DigitsValue(SubSeq(name, d, d + n1 - 1)),
               DigitsValue(EpisodeAt(name, CHOOSE p \in ps : \A q \in ps : q <= p))>>
        ELSE NoMatch

\* re.search: of the matches found at the positions of the name, the one
\* that starts leftmost
Search(found) ==
    LET starts == {i \in DOMAIN found : found[i] # NoMatch}
    IN  IF starts = {} THEN NoMatch
        ELSE found[CHOOSE i \in starts : \A k \in starts : i <= k]

\* parse_episode_info: (season, episode) of the first pattern that matches,
\* NoMatch for None
parse_episode_info(name) ==
    LET first  == Search([i \in 1..Len(name) |-> SxxEyyAt(name, i)])
        second == Search([i \in 1..Len(name) |-> NxNNAt(name, i)])
        third  == Search([i \in 1..Len(name) |-> SeasonEpisodeAt(name, i)])
    IN  IF first # NoMatch THEN first
        ELSE IF second # NoMatch THEN second
        ELSE third

\* The score tables of parse_quality, in the order the dicts are iterated.
quality_scores ==
    << [key |-> <<"2", "1", "6", "0", "P">>, pts |-> 400],
       [key |-> <<"4", "K">>, pts |-> 400],
       [key |-> <<"1", "0", "8", "0", "P">>, pts |-> 300],
       [key |-> <<"7", "2", "0", "P">>, pts |-> 200],
       [key |-> <<"4", "8", "0", "P">>, pts |-> 100],
       [key |-> <<"3", "6", "0", "P">>, pts |-> 50] >>

encoding_scores ==
    << [key |-> <<"X", "2", "6", "5">>, pts |-> 50],
       [key |-> <<"H", "E", "V", "C">>, pts |-> 50],
       [key |-> <<"H", "2", "6", "5">>, pts |-> 50],
       [key |-> <<"X", "2", "6", "4">>, pts |-> 30],
       [key |-> <<"H", "2", "6", "4">>, pts |-> 30],
       [key |-> <<"X", "V", "I", "D">>, pts |-> 10] >>

source_scores ==
    << [key |-> <<"B", "L", "U", "R", "A", "Y">>, pts |-> 40],
       [key |-> <<"B", "L", "U", "-", "R", "A", "Y">>, pts |-> 40],
       [key |-> <<"W", "E", "B", "R", "I", "P">>, pts |-> 30],
       [key |-> <<"W", "E", "B", "-", "R", "I", "P">>, pts |-> 30],
       [key |-> <<"W", "E", "B", "D", "L">>, pts |-> 30],
       [key |-> <<"W", "E", "B", "-", "D", "L">>, pts |-> 30],
       [key |-> <<"H", "D", "T", "V">>, pts |-> 20],
       [key |-> <<"D", "V", "D", "R", "I", "P">>, pts |-> 10] >>

\* one loop of parse_quality: the points of the first key found in the name
FirstFound(scores, name_upper) ==
    LET found == {k \in 1..Len(scores) : Contains(name_upper, scores[k].key)}
    IN  IF found = {} THEN 0
        ELSE scores[CHOOSE k \in found : \A m \in found : k <= m].pts

parse_quality(name) ==
    FirstFound(quality_scores, upper(name))
    + FirstFound(encoding_scores, upper(name))
    + FirstFound(source_scores, upper(name))

\* The torrents a search can return: name, id and seeders as the API gives
\* them (strings).
MaxTorrents == 2

TorrentNames ==
    { \* Show.S01E01.720p
      <<"S", "h", "o", "w", ".", "S", "0", "1", "E", "0", "1", ".",
        "7", "2", "0", "p">>,
\* Show.S01E01.720p.XviD
      <<"S", "h", "o", "w", ".", "S", "0", "1", "E", "0", "1", ".",
        "7", "2", "0", "p", ".", "X", "v", "i", "D">>,
\* Show.s01e02.1080p.x265
      <<"S", "h", "o", "w", ".", "s", "0", "1", "e", "0", "2", ".",
        "1", "0", "8", "0", "p", ".", "x", "2", "6", "5">>,
\* Show 1x02 HDTV
      <<"S", "h", "o", "w", " ", "1", "x", "0", "2", " ", "H", "D",
        "T", "V">>,
\* Show Season 2 Episode 1 4K
      <<"S", "h", "o", "w", " ", "S", "e", "a", "s", "o", "n", " ",
        "2", " ", "E", "p", "i", "s", "o", "d", "e", " ", "1", " ",
        "4", "K">>,
\* Show.Complete.720p.BluRay
      <<"S", "h", "o", "w", ".", "C", "o", "m", "p", "l", "e", "t",
        "e", ".", "7", "2", "0", "p", ".", "B", "l", "u", "R", "a",
        "y">> }

SeedCounts == { <<"5">>, <<"1", "2", "0", "0">> }

\* The index gives every torrent an id of its own.
TorrentId(k) == Str(100 + k)

Listings == [name : TorrentNames, seeds : SeedCounts]

TorrentLists ==
    UNION { { [k \in 1..n |-> [name |-> listing[k].name, id |-> TorrentId(k),
                               seeds |-> listing[k].seeds]] :
              listing \in [1..n -> Listings] } : n \in 0..MaxTorrents }

\* combined_score = quality_score * 100 + seeds
combined_score(quality_score, seeds) == quality_score * 100 + seeds

\* the torrent as deduplicate_episodes leaves it once it has scored it
Scored(torrent) ==
    [name |-> torrent.name, id |-> torrent.id, seeds |-> torrent.seeds,
     quality_score |-> parse_quality(torrent.name),
     combined_score |-> combined_score(parse_quality(torrent.name),
                                       DigitsValue(torrent.seeds)),
     episode_info |-> parse_episode_info(torrent.name)]

\* The dict `episodes` as the sequence of its items in insertion order; a key
\* is a (season, episode) tuple or a "non_episode_<id>" string.
SameKey(a, b) == a.tuple = b.tuple /\ a.key = b.key

\* episodes[key] = value
SetItem(episodes, item) ==
    IF \E k \in 1..Len(episodes) : SameKey(episodes[k], item)
    THEN [k \in 1..Len(episodes) |->
             IF SameKey(episodes[k], item) THEN item ELSE episodes[k]]
    ELSE Append(episodes, item)

RECURSIVE Grouped(_)
\* the loop of deduplicate_episodes over the torrents, first to last
Grouped(torrents) ==
    IF torrents = <<>> THEN <<>>
    ELSE LET torrent  == torrents[Len(torrents)]
             episodes == Grouped(SubSeq(torrents, 1, Len(torrents) - 1))
             ep_info  == parse_episode_info(torrent.name)
             ep_item  == [tuple |-> TRUE, key |-> ep_info,
                          value |-> Scored(torrent)]
         IN  IF ep_info = NoMatch
             THEN SetItem(episodes,
                          [tuple |-> FALSE, key |-> "non_episode_" \o torrent.id,
                           value |-> torrent])
             ELSE IF \A k \in 1..Len(episodes) :
                        SameKey(episodes[k], ep_item) =>
                            ep_item.value.combined_score
                                > episodes[k].value.combined_score
                  THEN SetItem(episodes, ep_item)
                  ELSE episodes

\* (season, episode) tuples as Python orders them
TupleLess(a, b) == a[1] < b[1] \/ (a[1] = b[1] /\ a[2] < b[2])

RECURSIVE SortedByKey(_)
\* episode_items.sort(key=lambda x: x[0]), the keys being distinct
SortedByKey(items) ==
    IF items = {} THEN <<>>
    ELSE LET first == CHOOSE x \in items :
                          \A y \in items \ {x} : TupleLess(x.key, y.key)
         IN  <<first>> \o SortedByKey(items \ {first})

IsTupleItem(item) == item.tuple
IsStringItem(item) == ~item.tuple

Values(items) == [k \in 1..Len(items) |-> items[k].value]

deduplicate_episodes(torrents) ==
    LET episodes == Grouped(torrents)
        episode_items == SelectSeq(episodes, IsTupleItem)
    IN  Values(SortedByKey({episode_items[k] : k \in 1..Len(episode_items)}))
        \o Values(SelectSeq(episodes, IsStringItem))

InitDedup ==
    /\ pc = "call"
    /\ AtRest
    /\ MediaAtRest
    /\ input \in TorrentLists
    /\ output = None

deduplicate_episodes_call ==
    /\ pc = "call"
    /\ output' = deduplicate_episodes(input)
    /\ pc' = "returned"
    /\ UNCHANGED <<input, process, media, ghosts>>

SpecDedup == InitDedup /\ [][deduplicate_episodes_call]_vars

\* ------------------------------------------------------------ claims, C26
IsEpisode(torrent) == parse_episode_info(torrent.name) # NoMatch

\* the returned list holds the episodes first
EpisodesOf(list) == SelectSeq(list, IsEpisode)

\* a is at least as good as b: better quality, or the same quality and no
\* fewer seeds
AtLeastAsGood(a, b) ==
    \/ parse_quality(a.name) > parse_quality(b.name)
    \/ /\ parse_quality(a.name) = parse_quality(b.name)
       /\ DigitsValue(a.seeds) >= DigitsValue(b.seeds)

\* the episodes come first, in ascending (season, episode) order, one torrent
\* each, followed by the torrents without episode information
OnePerEpisodeInOrder ==
    LET n == Len(EpisodesOf(output))
    IN  /\ \A k \in 1..Len(output) : IsEpisode(output[k]) <=> k <= n
        /\ \A k \in 1..(n - 1) :
              TupleLess(parse_episode_info(output[k].name),
                        parse_episode_info(output[k + 1].name))
        /\ \A k \in 1..Len(input) :
              \E m \in 1..Len(output) :
                 IF IsEpisode(input[k])
                 THEN parse_episode_info(output[m].name)
                          = parse_episode_info(input[k].name)
                 ELSE output[m] = input[k]

\* the torrent of the returned list is one of the torrents given
Given(torrent) ==
    \E k \in 1..Len(input) :
        /\ input[k].name = torrent.name
        /\ input[k].id = torrent.id
        /\ input[k].seeds = torrent.seeds

\* C26 as stated: deduplicate_episodes returns at most one torrent per
\* (season, episode), the one of the best quality score, seeds deciding only
\* among torrents of equal quality; the episodes come first in ascending
\* order, then the torrents without episode information.
C26_BestQualityKeptInOrder ==
    pc = "returned" =>
        /\ OnePerEpisodeInOrder
        /\ \A m \in 1..Len(output) : Given(output[m])
        /\ \A m \in 1..Len(output), k \in 1..Len(input) :
              /\ IsEpisode(input[k])
              /\ parse_episode_info(input[k].name)
                     = parse_episode_info(output[m].name)
              => AtLeastAsGood(output[m], input[k])

\* What the code does keep: per episode the first torrent of the greatest
\* quality_score * 100 + seeds, in the order claimed.
C26_BestCombinedScoreKeptInOrder ==
    pc = "returned" =>
        /\ OnePerEpisodeInOrder
        /\ \A m \in 1..Len(output) : Given(output[m])
        /\ \A m \in 1..Len(output), k \in 1..Len(input) :
              /\ IsEpisode(input[k])
              /\ parse_episode_info(input[k].name)
                     = parse_episode_info(output[m].name)
              => output[m].combined_score >= Scored(input[k]).combined_score

\* C26 witness: two torrents of one episode were given, the one of the lower
\* quality score with a thousand seeds more, and that one was returned.
C26_Witness ==
    /\ pc = "returned"
    /\ Len(input) = 2
    /\ Len(output) = 1
    /\ \E k \in 1..2 :
          /\ parse_quality(input[k].name) > parse_quality(output[1].name)
          /\ DigitsValue(output[1].seeds) > DigitsValue(input[k].seeds) + 1000

\* --------------------------------------------------------- number selection
\* The parts a selection string is made of, each with what it names: a valid
\* number or inclusive range names integers, anything else names none.
MaxParts == 3

SelectionParts ==
    << [text |-> <<"1", "-", "3">>,
        valid |-> TRUE, names |-> 1..3],
       [text |-> <<"5">>,
        valid |-> TRUE, names |-> {5}],
       [text |-> <<"7", "-", "9">>,
        valid |-> TRUE, names |-> 7..9],
       [text |-> <<" ", "2">>,
        valid |-> TRUE, names |-> {2}],
       [text |-> <<"0">>,
        valid |-> TRUE, names |-> {0}],
       [text |-> <<"3", "-", "1">>,
        valid |-> TRUE, names |-> {}],
       [text |-> <<"x">>,
        valid |-> FALSE, names |-> {}],
       [text |-> <<>>,
        valid |-> FALSE, names |-> {}],
       [text |-> <<"1", "-", "2", "-", "3">>,
        valid |-> FALSE, names |-> {}] >>

RECURSIVE Joined(_)
\* ",".join(parts)
Joined(parts) ==
    IF Len(parts) = 1 THEN parts[1]
    ELSE Joined(SubSeq(parts, 1, Len(parts) - 1)) \o <<",">> \o parts[Len(parts)]

NumberStrings ==
    UNION { { Joined([k \in 1..n |-> SelectionParts[choice[k]].text]) :
              choice \in [1..n -> 1..Len(SelectionParts)] } : n \in 1..MaxParts }

\* len(unique_results)
ResultCounts == {2, 8}

RECURSIVE split(_, _)
\* str.split(sep) for a separator of one character
split(text, sep) ==
    LET at == {i \in 1..Len(text) : text[i] = sep}
    IN  IF at = {} THEN <<text>>
        ELSE LET i == CHOOSE k \in at : \A m \in at : m <= k
             IN  Append(split(SubSeq(text, 1, i - 1), sep),
                        SubSeq(text, i + 1, Len(text)))

\* str.strip()
strip(text) ==
    LET inked == {i \in 1..Len(text) : text[i] \notin WhiteSpace}
    IN  IF inked = {} THEN <<>>
        ELSE SubSeq(text, CHOOSE i \in inked : \A k \in inked : i <= k,
                          CHOOSE i \in inked : \A k \in inked : k <= i)

\* int(text) raises no ValueError: an optional sign and decimal digits,
\* white space around them
IntOk(text) ==
    LET t == strip(text)
        body == IF t # <<>> /\ t[1] \in {"+", "-"} THEN Tail(t) ELSE t
    IN  /\ body # <<>>
        /\ \A i \in 1..Len(body) : body[i] \in Digits

\* int(text)
IntOf(text) ==
    LET t == strip(text)
    IN  IF t[1] = "-" THEN 0 - DigitsValue(Tail(t))
        ELSE IF t[1] = "+" THEN DigitsValue(Tail(t))
        ELSE DigitsValue(t)

\* range(start, end): the end is left out
RangeOf_Exclusive(start, end) == start..(end - 1)

\* range(int(start), int(end) + 1)
RangeOf(start, end) == start..end

\* one round of the loop of parse_number_range: the numbers the part adds
\* and whether it printed a warning
ParsedPart(part) ==
    IF Contains(part, <<"-">>)
    THEN LET pieces == split(part, "-")
         IN  IF Len(pieces) = 2 /\ IntOk(pieces[1]) /\ IntOk(pieces[2])
             THEN [numbers |-> RangeOf(IntOf(pieces[1]), IntOf(pieces[2])),
                   warned |-> FALSE]
             ELSE [numbers |-> {}, warned |-> TRUE]
    ELSE IF IntOk(part)
         THEN [numbers |-> {IntOf(part)}, warned |-> FALSE]
         ELSE [numbers |-> {}, warned |-> TRUE]

RECURSIVE sorted(_)
\* sorted(result) of a set of integers
sorted(result) ==
    IF result = {} THEN <<>>
    ELSE LET least == CHOOSE x \in result : \A y \in result : x <= y
         IN  <<least>> \o sorted(result \ {least})

WasWarned(part) == ParsedPart(part).warned

\* parse_number_range: the list returned and the parts warned about
parse_number_range(numbers_str) ==
    LET parts == [k \in 1..Len(split(numbers_str, ",")) |->
                     strip(split(numbers_str, ",")[k])]
    IN  [numbers |-> sorted(UNION {ParsedPart(parts[k]).numbers :
                                   k \in 1..Len(parts)}),
         warned  |-> SelectSeq(parts, WasWarned)]

InitSelect ==
    /\ pc = "call"
    /\ AtRest
    /\ MediaAtRest
    /\ input \in [numbers_str : NumberStrings, results : ResultCounts]
    /\ output = None

parse_number_range_call ==
    /\ pc = "call"
    /\ output' = parse_number_range(input.numbers_str)
    /\ pc' = "parsed"
    /\ UNCHANGED <<input, process, media, ghosts>>

\* main: the numbers within 1..len(unique_results) are selected, in order;
\* the others are warned about
main_select ==
    /\ pc = "parsed"
    /\ LET InRange(num) == 1 <= num /\ num <= input.results
           OutOfRange(num) == ~InRange(num)
       IN  output' = [numbers |-> output.numbers, warned |-> output.warned,
                      torrents_to_download |-> SelectSeq(output.numbers, InRange),
                      out_of_range |-> SelectSeq(output.numbers, OutOfRange)]
    /\ pc' = "selected"
    /\ UNCHANGED <<input, process, media, ghosts>>

NextSelect == parse_number_range_call \/ main_select

SpecSelect == InitSelect /\ [][NextSelect]_vars

\* ------------------------------------------------------------ claims, C30
\* what SelectionParts says of a part of the string as it was typed
Meaning(piece) ==
    SelectionParts[CHOOSE k \in 1..Len(SelectionParts) :
                       SelectionParts[k].text = piece]

IsInvalid(piece) == ~Meaning(piece).valid

StrictlyAscending(list) ==
    \A k \in 1..(Len(list) - 1) : list[k] < list[k + 1]

\* C30: parse_number_range returns, sorted and without duplicates, exactly
\* the integers that the valid numbers and inclusive ranges of the string
\* name; every other part is warned about and adds nothing; the selection
\* made from the list holds only numbers of 1..len(results), each once.
C30_NamedNumbersSortedAndSelected ==
    LET pieces  == split(input.numbers_str, ",")
        invalid == SelectSeq(pieces, IsInvalid)
    IN  /\ pc \in {"parsed", "selected"} =>
              /\ StrictlyAscending(output.numbers)
              /\ {output.numbers[k] : k \in 1..Len(output.numbers)}
                     = UNION {Meaning(pieces[k]).names : k \in 1..Len(pieces)}
              /\ output.warned = [k \in 1..Len(invalid) |-> strip(invalid[k])]
        /\ pc = "selected" =>
              /\ StrictlyAscending(output.torrents_to_download)
              /\ \A k \in 1..Len(output.torrents_to_download) :
                    /\ output.torrents_to_download[k] \in 1..input.results
                    /\ \E m \in 1..Len(output.numbers) :
                          output.numbers[m] = output.torrents_to_download[k]

\* C30 witness: "1-3,5,7-9" was parsed to [1, 2, 3, 5, 7, 8, 9] and, of eight
\* results, the numbers 1, 2, 3, 5, 7 and 8 were selected, 9 being refused.
C30_Witness ==
    /\ pc = "selected"
    /\ input.numbers_str
           = <<"1", "-", "3", ",", "5", ",", "7", "-", "9">>
    /\ input.results = 8
    /\ output.numbers = <<1, 2, 3, 5, 7, 8, 9>>
    /\ output.warned = <<>>
    /\ output.torrents_to_download = <<1, 2, 3, 5, 7, 8>>
    /\ output.out_of_range = <<9>>

\* ==================================================== transmission_postprocess
\* File names are given by their characters.
\* text.endswith(suffix)
EndsWith(text, suffix) ==
    /\ Len(text) >= Len(suffix)
    /\ \A i \in 1..Len(suffix) :
          text[Len(text) - Len(suffix) + i] = suffix[i]

\* Path(filename).suffix: from the last dot on, if that dot is neither the
\* first nor the last character
Suffix(filename) ==
    LET dots == {i \in 2..Len(filename) : filename[i] = "."}
        last == CHOOSE i \in dots : \A k \in dots : k <= i
    IN  IF dots = {} \/ filename[Len(filename)] = "." THEN <<>>
        ELSE SubSeq(filename, last, Len(filename))

video_extensions ==
    { <<".", "m", "k", "v">>, <<".", "m", "p", "4">>, <<".", "a", "v", "i">>,
      <<".", "m", "4", "v">>, <<".", "t", "s">>, <<".", "m", "p", "g">>,
      <<".", "m", "p", "e", "g">>, <<".", "m", "o", "v">> }

is_video_file(filename) == lower(Suffix(filename)) \in video_extensions

\* what rglob('*.part') finds
IsPartFile(filename) == EndsWith(filename, <<".", "p", "a", "r", "t">>)

\* [Ss]\d+[Ee]\d+
MatchesSxxEyy(name, i) == SxxEyyAt(name, i) # NoMatch

\* \d+[xX]\d+
MatchesNxNN(name, i) == NxNNAt(name, i) # NoMatch

\* [Ss]eason\s*\d+, ignoring case
MatchesSeason(name, i) ==
    /\ WordAt(upper(name), i, <<"S", "E", "A", "S", "O", "N">>)
    /\ Run(name, i + 6 + Run(name, i + 6, WhiteSpace), Digits) >= 1

\* \(\d{4}\)
MatchesYearInBrackets(name, i) ==
    /\ i + 5 <= Len(name)
    /\ name[i] = "(" /\ name[i + 5] = ")"
    /\ \A k \in 1..4 : name[i + k] \in Digits

\* \.\d{4}\.
MatchesYearInDots(name, i) ==
    /\ i + 5 <= Len(name)
    /\ name[i] = "." /\ name[i + 5] = "."
    /\ \A k \in 1..4 : name[i + k] \in Digits

\* what \w matches
WordChars ==
    Digits \cup {"_"} \cup {UpperCase[k] : k \in 1..Len(UpperCase)}
           \cup {LowerCase[k] : k \in 1..Len(LowerCase)}

\* \b: a word character on exactly one side of the place before position i
Boundary(name, i) ==
    (i - 1 >= 1 /\ name[i - 1] \in WordChars)
        # (i <= Len(name) /\ name[i] \in WordChars)

\* the alternatives of the quality markers, in upper case
QualityMarkers ==
    { <<"7", "2", "0", "P">>, <<"1", "0", "8", "0", "P">>,
      <<"2", "1", "6", "0", "P">>, <<"4", "K">>,
      <<"X", "2", "6", "4">>, <<"X", "2", "6", "5">>, <<"H", "E", "V", "C">>,
      <<"W", "E", "B", "D", "L">>, <<"W", "E", "B", "-", "D", "L">>,
      <<"W", "E", "B", "R", "I", "P">>, <<"W", "E", "B", "-", "R", "I", "P">>,
      <<"B", "L", "U", "R", "A", "Y">>, <<"H", "D", "T", "V">>,
      <<"D", "V", "D", "R", "I", "P">> }

\* \b(720[Pp]|...|DVDRip)\b, ignoring case
MatchesQuality(name, i) ==
    /\ Boundary(name, i)
    /\ \E marker \in QualityMarkers :
          /\ WordAt(upper(name), i, marker)
          /\ Boundary(name, i + Len(marker))

\* the patterns of extract_show_name by name: pattern matches at position i
Matches(pattern, name, i) ==
    CASE pattern = "SxxEyy" -> MatchesSxxEyy(name, i)
      [] pattern = "NxNN" -> MatchesNxNN(name, i)
      [] pattern = "season" -> MatchesSeason(name, i)
      [] pattern = "(year)" -> MatchesYearInBrackets(name, i)
      [] pattern = ".year." -> MatchesYearInDots(name, i)
      [] pattern = "quality" -> MatchesQuality(name, i)

\* re.sub(pattern + '.*$', '', name): the name up to the first place where
\* the pattern matches
CutAt(name, pattern) ==
    IF \E i \in 1..Len(name) : Matches(pattern, name, i)
    THEN SubSeq(name, 1,
                (CHOOSE i \in 1..Len(name) :
                    /\ Matches(pattern, name, i)
                    /\ \A k \in 1..(i - 1) : ~Matches(pattern, name, k)) - 1)
    ELSE name

RECURSIVE Words(_)
\* name.split() after re.sub(r'[._\-]+', ' ', name): the runs of characters
\* that are neither separators nor white space
Words(name) ==
    LET blank == WhiteSpace \cup {".", "_", "-"}
        skip  == Run(name, 1, blank)
        rest  == SubSeq(name, skip + 1, Len(name))
        ends  == {i \in 1..Len(rest) : rest[i] \in blank}
        len   == IF ends = {} THEN Len(rest)
                 ELSE (CHOOSE i \in ends : \A k \in ends : i <= k) - 1
    IN  IF rest = <<>> THEN <<>>
        ELSE <<SubSeq(rest, 1, len)>> \o Words(SubSeq(rest, len + 1, Len(rest)))

RECURSIVE JoinedBySpace(_)
\* ' '.join(words)
JoinedBySpace(words) ==
    IF words = <<>> THEN <<>>
    ELSE IF Len(words) = 1 THEN words[1]
    ELSE JoinedBySpace(SubSeq(words, 1, Len(words) - 1))
         \o <<" ">> \o words[Len(words)]

\* extract_show_name of transmission_postprocess
extract_show_name(filename) ==
    JoinedBySpace(Words(
        CutAt(CutAt(CutAt(CutAt(CutAt(CutAt(filename, "SxxEyy"), "NxNN"),
                                "season"), "(year)"), ".year."), "quality")))

\* The files of a download: an episode, an episode whose name begins with
\* its number, a description, and an episode still being downloaded.
\* "Show.S01E01.720p.mkv"
EpisodeFile ==
    <<"S", "h", "o", "w", ".", "S", "0", "1", "E", "0", "1", ".",
      "7", "2", "0", "p", ".", "m", "k", "v">>

\* "S01E02.MP4"
BareEpisodeFile ==
    <<"S", "0", "1", "E", "0", "2", ".", "M", "P", "4">>

\* "Show.nfo"
InfoFile ==
    <<"S", "h", "o", "w", ".", "n", "f", "o">>

\* "Show.S01E03.mkv.part"
PartFile ==
    <<"S", "h", "o", "w", ".", "S", "0", "1", "E", "0", "3", ".",
      "m", "k", "v", ".", "p", "a", "r", "t">>

\* "Show.S01E03.mkv", PartFile once its download is complete
CompletedFile ==
    <<"S", "h", "o", "w", ".", "S", "0", "1", "E", "0", "3", ".",
      "m", "k", "v">>

\* the download directory "Show.S01"
TorrentDir ==
    <<"S", "h", "o", "w", ".", "S", "0", "1">>

\* --show-name "My Show"
ShowNameGiven ==
    <<"M", "y", " ", "S", "h", "o", "w">>

FileNames == {EpisodeFile, BareEpisodeFile, InfoFile, PartFile}

\* is_video_file, rglob('*.part') and extract_show_name over the names of
\* the files there are
VideoFileNames == {f \in FileNames \cup {CompletedFile} : is_video_file(f)}

PartFileNames == {f \in FileNames \cup {CompletedFile} : IsPartFile(f)}

ShowNameOf ==
    [f \in FileNames \cup {CompletedFile} |-> extract_show_name(f)]

Videos(files) == files \cap VideoFileNames

\* What the file system does during one call of process_torrent_directory:
\* which video rglob lists first, which moves raise, which files the
\* clean-up does not get to because an unlink raised, whether rmdir works.
Lucks(files) ==
    UNION { [first : IF Videos(files) = {} THEN {<<>>} ELSE Videos(files),
             moves : {moves},
             kept  : IF \A f \in Videos(files) : moves[f] = "failed"
                     THEN {files}
                     ELSE SUBSET {f \in files : f \notin Videos(files)
                                                \/ moves[f] = "failed"},
             rmdir : BOOLEAN] :
            moves \in [Videos(files) -> {"moved", "failed"}] }

\* process_torrent_directory returns (success_count, error_count, show_name),
\* show_name <<>> for None
Result(success_count, error_count, show_name) ==
    [success_count |-> success_count, error_count |-> error_count,
     show_name |-> show_name]

\* the clean-up: every file still in the torrent directory is unlinked
CleanedUp(remaining, kept) == remaining \cap kept

\* process_torrent_directory on a directory holding `files`: the files left
\* in it, whether it still exists, the videos moved to the show directory,
\* and what is returned
process_torrent_directory(files, exists, show_name_override, dry_run, luck) ==
    LET video_files == Videos(files)
        show_name == IF show_name_override # <<>> THEN show_name_override
                     ELSE IF luck.first = <<>> THEN <<>>
                     ELSE ShowNameOf[luck.first]
        moved == {f \in video_files : luck.moves[f] = "moved"}
        left  == CleanedUp(files \ moved, luck.kept)
        Unchanged(result) ==
            [files |-> files, exists |-> exists, moved |-> {},
             created |-> FALSE, result |-> result]
    IN  IF ~exists THEN Unchanged(Result(0, 1, <<>>))
        ELSE IF video_files = {} THEN Unchanged(Result(0, 1, <<>>))
        ELSE IF show_name = <<>>
             THEN Unchanged(Result(0, Cardinality(video_files), <<>>))
        ELSE IF dry_run
             THEN Unchanged(Result(Cardinality(video_files), 0, show_name))
        ELSE IF moved = {}
             THEN [files |-> files, exists |-> exists, moved |-> {},
                   created |-> FALSE,
                   result |-> Result(0, Cardinality(video_files), show_name)]
        ELSE [files |-> left,
              exists |-> ~(left = {} /\ luck.rmdir),
              moved |-> moved, created |-> TRUE,
              result |-> Result(Cardinality(moved),
                                  Cardinality(video_files \ moved), show_name)]

\* the library after the call: the show directory and the videos moved
Imported(done) ==
    {[show_name |-> done.result.show_name, file |-> f] : f \in done.moved}

\* the record of the call
Call(dir, files, dry_run, luck, done) ==
    [dir |-> dir, round |-> rounds, dry_run |-> dry_run, before |-> files,
     moves |-> luck.moves, result |-> done.result]

\* the download directories after the call
Downloads(dir, done) ==
    IF done.exists THEN [downloads EXCEPT ![dir] = done.files]
    ELSE [d \in DOMAIN downloads \ {dir} |-> downloads[d]]

InitPost ==
    /\ pc = "call"
    /\ AtRest
    /\ input \in [torrent_dir : {TorrentDir}, apply : BOOLEAN,
                  show_name : {<<>>, ShowNameGiven}]
    /\ output = None
    /\ downloads \in {EmptyMap}
                     \cup {(TorrentDir :> files) : files \in SUBSET FileNames}
    /\ library = {}
    /\ transmission = {}
    /\ processed = {}
    /\ visited = {}
    /\ rounds = 0
    /\ lastCall = NoCall

\* every call is live
DryRun_Never(apply) == FALSE

\* main: dry_run=not args.apply
DryRun(apply) == ~apply

\* main, command `process`: one call of process_torrent_directory
main_process ==
    /\ pc = "call"
    /\ LET dir    == input.torrent_dir
           exists == dir \in DOMAIN downloads
           files  == IF exists THEN downloads[dir] ELSE {}
           Effect(luck, done) ==
               /\ downloads' = IF exists THEN Downloads(dir, done)
                               ELSE downloads
               /\ library' = library \cup Imported(done)
               /\ lastCall' = Call(dir, files, DryRun(input.apply), luck, done)
               /\ output' = done.result
       IN  \E luck \in Lucks(files) :
              Effect(luck, process_torrent_directory(
                               files, exists, input.show_name,
                               DryRun(input.apply), luck))
    /\ pc' = "returned"
    /\ UNCHANGED <<input, process, transmission, processed, visited, rounds,
                   ghosts>>

SpecPost == InitPost /\ [][main_process]_vars

\* ------------------------------------------------------------ claims, C27
\* the files of the torrent directory now, none if it is gone
FilesNow(dir) == IF dir \in DOMAIN downloads THEN downloads[dir] ELSE {}

\* the videos found by the last call whose move raised
FailedToMove ==
    {f \in DOMAIN lastCall.moves : lastCall.moves[f] = "failed"}

LiveCallReturned == pc = "returned" /\ ~lastCall.dry_run

\* C27 as stated: after process_torrent_directory with dry_run false, every
\* video whose move failed is still in the torrent directory (the clean-up
\* deletes non-video files only), and success_count + error_count is the
\* number of video files found.
C27_FailedVideoKeptAndCounted ==
    LiveCallReturned =>
        /\ FailedToMove \subseteq FilesNow(lastCall.dir)
        /\ lastCall.result.success_count + lastCall.result.error_count
               = Cardinality(Videos(lastCall.before))

\* What the code does: the videos that failed to move are kept only if no
\* video was moved; if a video was found, each one is counted once and the
\* moved ones are in the library.
C27_FailedVideoKeptIfNoneMoved ==
    LiveCallReturned =>
        /\ lastCall.result.success_count = 0 =>
              FilesNow(lastCall.dir) = lastCall.before
        /\ Videos(lastCall.before) # {} =>
              lastCall.result.success_count + lastCall.result.error_count
                  = Cardinality(Videos(lastCall.before))
        /\ lastCall.result.success_count = Cardinality(library)
        /\ \A f \in FilesNow(lastCall.dir) : f \in lastCall.before

\* C27 witness: of two videos one was moved and the move of the other
\* raised; the clean-up ran without an error: the torrent directory is gone
\* and the second video with it.
C27_Witness ==
    /\ LiveCallReturned
    /\ lastCall.result.success_count = 1
    /\ lastCall.result.error_count = 1
    /\ lastCall.dir \notin DOMAIN downloads
    /\ FailedToMove # {}
    /\ FailedToMove \cap FilesNow(lastCall.dir) = {}

\* ------------------------------------------------------------ claims, C28
\* C28: the `process` command without --apply calls process_torrent_directory
\* with dry_run true, and that call changes nothing on the file system: no
\* show directory is created, no file is moved or deleted, the torrent
\* directory is not cleaned up; it returns the moves it would make.
C28_DryRunChangesNothing ==
    [][pc' = "returned" /\ ~input.apply =>
          /\ lastCall'.dry_run
          /\ downloads' = downloads
          /\ library' = library
          /\ transmission' = transmission
          /\ output'.error_count = 0 =>
                output'.success_count = Cardinality(Videos(lastCall'.before))
      ]_vars

\* C28 witness: a dry run over a directory of two videos and two other files
\* has returned two moves to make, the directory is as it was and the
\* library is empty.
C28_Witness ==
    /\ pc = "returned"
    /\ ~input.apply
    /\ lastCall.dry_run
    /\ output.success_count = 2
    /\ downloads = (TorrentDir :> FileNames)
    /\ library = {}

\* ------------------------------------------------- monitor and process-all
\* The watch directory: two download directories, a hidden directory and a
\* plain file.
MaxRounds == 2

\* "Other.S02"
OtherDir == <<"O", "t", "h", "e", "r", ".", "S", "0", "2">>

\* ".incomplete"
HiddenDir == <<".", "i", "n", "c", "o", "m", "p", "l", "e", "t", "e">>

\* "notes.txt"
PlainFiles == { <<"n", "o", "t", "e", "s", ".", "t", "x", "t">> }

DirContents ==
    { {EpisodeFile}, {EpisodeFile, InfoFile}, {EpisodeFile, PartFile},
      {EpisodeFile, BareEpisodeFile}, {BareEpisodeFile}, {InfoFile} }

\* watch_path.iterdir()
Entries == DOMAIN downloads \cup PlainFiles

\* item.is_dir()
IsDir(item) == item \in DOMAIN downloads

\* a directory with a .part file is processed all the same
Skipped_PartFilesIgnored(item, consultProcessed) ==
    \/ ~IsDir(item)
    \/ StartsWith(item, <<".">>)
    \/ consultProcessed /\ item \in processed
    \/ Videos(downloads[item]) = {}

\* the `continue`s of the loop over the watch directory
Skipped(item, consultProcessed) ==
    \/ ~IsDir(item)
    \/ StartsWith(item, <<".">>)
    \/ consultProcessed /\ item \in processed
    \/ downloads[item] \cap PartFileNames # {}
    \/ Videos(downloads[item]) = {}

\* remove_torrent_from_transmission removes the torrent of that name, data
\* included, unless it is not found or the RPC raises
Removes(torrent_name, rpc) == rpc = "ok" /\ torrent_name \in transmission

\* One round of the loop over the entries of the watch directory, as
\* monitor_directory (which consults `processed`) and process_all_completed
\* run it.
Handle(item, consultProcessed) ==
    /\ item \in Entries \ visited
    /\ visited' = visited \cup {item}
    /\ IF Skipped(item, consultProcessed)
       THEN UNCHANGED <<downloads, library, transmission, processed, lastCall>>
       ELSE LET Effect(luck, rpc, done) ==
                    /\ lastCall' = Call(item, downloads[item], FALSE, luck, done)
                    /\ library' = library \cup Imported(done)
                    /\ processed' =
                          IF done.result.success_count > 0 /\ consultProcessed
                          THEN processed \cup {item} ELSE processed
                    /\ transmission' =
                          IF done.result.success_count > 0 /\ Removes(item, rpc)
                          THEN transmission \ {item} ELSE transmission
                    /\ downloads' =
                          IF done.result.success_count > 0 /\ Removes(item, rpc)
                          THEN [d \in DOMAIN Downloads(item, done) \ {item} |->
                                   Downloads(item, done)[d]]
                          ELSE Downloads(item, done)
            IN  \E luck \in Lucks(downloads[item]), rpc \in {"ok", "error"} :
                   Effect(luck, rpc,
                          process_torrent_directory(downloads[item], TRUE,
                                                    input.show_name, FALSE, luck))

InitMonitor ==
    /\ pc = "watch"
    /\ AtRest
    /\ input \in [command : {"monitor", "process-all"}, show_name : {<<>>}]
    /\ output = None
    /\ downloads \in
          { (TorrentDir :> a) @@ (OtherDir :> b) @@ (HiddenDir :> {EpisodeFile}) :
            a \in DirContents, b \in {{EpisodeFile}, {EpisodeFile, PartFile}} }
    /\ library = {}
    /\ transmission \in {{TorrentDir, OtherDir}, {OtherDir}}
    /\ processed = {}
    /\ visited = {}
    /\ rounds = 0
    /\ lastCall = NoCall

\* monitor_directory: the body of `for item in watch_path.iterdir()`
monitor_directory_item ==
    /\ pc = "watch"
    /\ input.command = "monitor"
    /\ \E item \in Entries : Handle(item, TRUE)
    /\ UNCHANGED <<pc, input, output, process, rounds, ghosts>>

\* monitor_directory: time.sleep(interval) and the next round
monitor_directory_sleep ==
    /\ pc = "watch"
    /\ input.command = "monitor"
    /\ Entries \subseteq visited
    /\ rounds < MaxRounds
    /\ rounds' = rounds + 1
    /\ visited' = {}
    /\ UNCHANGED <<pc, input, output, process, downloads, library,
                   transmission, processed, lastCall, ghosts>>

\* monitor_directory: KeyboardInterrupt, taken in time.sleep(interval)
monitor_directory_stop ==
    /\ pc = "watch"
    /\ input.command = "monitor"
    /\ Entries \subseteq visited
    /\ pc' = "returned"
    /\ UNCHANGED <<input, output, process, media, ghosts>>

\* process_all_completed: the body of `for item in watch_path.iterdir()`
process_all_completed_item ==
    /\ pc = "watch"
    /\ input.command = "process-all"
    /\ \E item \in Entries : Handle(item, FALSE)
    /\ UNCHANGED <<pc, input, output, process, rounds, ghosts>>

\* process_all_completed: the loop is over
process_all_completed_return ==
    /\ pc = "watch"
    /\ input.command = "process-all"
    /\ Entries \subseteq visited
    /\ pc' = "returned"
    /\ UNCHANGED <<input, output, process, media, ghosts>>

\* Transmission completes a download and renames its .part file
download_completes ==
    /\ pc = "watch"
    /\ \E item \in DOMAIN downloads :
          /\ PartFile \in downloads[item]
          /\ downloads' = [downloads EXCEPT
                              ![item] = (@ \ {PartFile}) \cup {CompletedFile}]
    /\ UNCHANGED <<pc, input, output, process, library, transmission,
                   processed, visited, rounds, lastCall, ghosts>>

NextMonitor ==
    \/ monitor_directory_item
    \/ monitor_directory_sleep
    \/ monitor_directory_stop
    \/ process_all_completed_item
    \/ process_all_completed_return
    \/ download_completes

SpecMonitor == InitMonitor /\ [][NextMonitor]_vars

\* ------------------------------------------------------------ claims, C29
\* this step calls process_torrent_directory
Called == lastCall' # lastCall

\* the directory is complete: no .part file and at least one video file
Complete(dir) ==
    /\ dir \in DOMAIN downloads
    /\ downloads[dir] \cap PartFileNames = {}
    /\ Videos(downloads[dir]) # {}

\* C29: monitor_directory and process_all_completed process a download
\* directory only if it holds no .part file and at least one video file, and
\* remove its torrent from Transmission only when that processing moved at
\* least one file; monitor_directory never processes again a path it has
\* processed with success, and processes a complete directory that is not
\* among those in every round, a directory whose processing moved no file
\* staying as it was and outside `processed`.
C29_ProcessedWhenCompleteOnceMoved ==
    [][/\ Called =>
             /\ Complete(lastCall'.dir)
             /\ lastCall'.dir \notin processed
             /\ lastCall'.result.success_count > 0 =>
                   /\ \E copy \in library' :
                         /\ copy.file \in Videos(lastCall'.before)
                         /\ lastCall'.moves[copy.file] = "moved"
                   /\ input.command = "monitor" => lastCall'.dir \in processed'
             /\ lastCall'.result.success_count = 0 =>
                   /\ processed' = processed
                   /\ downloads' = downloads
                   /\ library' = library
       /\ transmission' # transmission =>
             /\ Called
             /\ lastCall'.result.success_count > 0
             /\ transmission' = transmission \ {lastCall'.dir}
       /\ processed \subseteq processed'
       /\ \A item \in visited' \ visited :
             /\ input.command = "monitor" => item \notin processed
             /\ Complete(item)
             /\ ~StartsWith(item, <<".">>)
             => Called /\ lastCall'.dir = item
       /\ rounds' # rounds => Entries \subseteq visited
      ]_vars

\* C29 witness: in a later round of monitor_directory a directory whose only
\* video cannot be given a show name has been processed again without
\* success, while the other directory was processed with success in an
\* earlier round, is in `processed` and its torrent is gone from Transmission.
C29_Witness ==
    /\ input.command = "monitor"
    /\ rounds = MaxRounds
    /\ lastCall.dir = TorrentDir
    /\ lastCall.round = MaxRounds
    /\ lastCall.result.success_count = 0
    /\ TorrentDir \in DOMAIN downloads
    /\ downloads[TorrentDir] = {BareEpisodeFile}
    /\ TorrentDir \notin processed
    /\ TorrentDir \in transmission
    /\ OtherDir \in processed
    /\ OtherDir \notin transmission

====
